---- MODULE Spec2Model ----
(***************************************************************************)
(* Version-tracking core of mavt: the Tracker (internal/tracker) on top of *)
(* the file-based Storage (internal/storage), with the App Store client    *)
(* and the notifier as nondeterministic collaborators.                     *)
(*                                                                         *)
(* One background invocation of CheckForUpdates at a time (the daemon      *)
(* loop) runs next to one foreground TrackApp (an HTTP handler).  Every    *)
(* step of either is one call of a collaborator: a lookup, or one Storage  *)
(* method (each runs under the Storage mutex, so it is one atomic step).   *)
(*                                                                         *)
(* Spec        TrackApp next to CheckForUpdates, with failing lookups and  *)
(*             failing Storage calls.                                      *)
(* SpecFirst   Spec, recording the first successful TrackApp.              *)
(* SpecLock    goroutines inside the methods of one Storage: the RWMutex   *)
(*             and the file operations of each method.                     *)
(* SpecLockRm  SpecLock with the removal of an identifier.                 *)
(* SpecRemove  TrackApp next to RemoveApp.                                 *)
(* SpecTwo     two callers of CheckForUpdates at the same time.            *)
(* SpecStore   the methods of Storage one at a time, on data directories   *)
(*             with missing, well-formed and malformed files.              *)
(* SpecTerm    CheckForUpdates alone, with fairness: it runs to its end.   *)
(* SpecIdem    TrackApp called repeatedly against an unchanged catalog.    *)
(* SpecSearch  GET /api/search: the limit sent and the results returned.   *)
(* SpecNotify  NotifyUpdates on batches of every size.                     *)
(* SpecMain    the process: main's switch, the default one-shot run and    *)
(*             the daemon loop with its signal handler and its ticker.     *)
(* SpecMainFair  SpecMain with fairness on the daemon loop's steps.        *)
(* SpecCheckRemove  CheckForUpdates next to RemoveApp.                     *)
(* SpecHttp    the /api/track handler, one request after the other.        *)
(* SpecLive    CheckForUpdates called again and again, with fairness.      *)
(***************************************************************************)
EXTENDS Integers, Sequences, FiniteSets, TLC

\* ------------------------------------------------------------------ bounds
\* Every lookup reads the clock and advances it; no lookup and no
\* CheckForUpdates starts at MaxTime.
MaxTime == 2

\* When Storage methods are called directly (SpecLock), no SaveVersionUpdate is
\* called once the records of the history and the calls in flight are MaxHist,
\* nor by a goroutine whose MaxHist calls have returned.
MaxHist == 2

\* Bundle identifiers, in the order os.ReadDir lists their files (by name).
IdOrder == <<"a", "b">>
Ids == {IdOrder[k] : k \in 1..Len(IdOrder)}
\* Version strings the catalog may report; compared for inequality only.
Versions == {"1.9", "2.0"}
\* Release notes the catalog may report.
Notes == {"n1"}

\* An optional value: None (nil, no file) or Some(x).
None == <<>>
Some(x) == <<x>>

VARIABLES
    now,          \* the wall clock (time.Now)
    enabled,      \* Notifier.enabled
    appsFile,     \* appsFile[id]: content of data/apps/{id}.json, None if no file
    updatesFile,  \* updatesFile[id]: content of data/updates/{id}.json, None if no file
    ck,           \* the CheckForUpdates invocation (locals, position, result)
    tr,           \* the TrackApp invocation (locals, position, result)
    firstTracked, \* history variable: firstTracked[id] = the time stamped by the
                  \* first successful TrackApp(id), None before
    chk,          \* history variable: what the check of the current (or last) item
                  \* of CheckForUpdates saw and did
    run,          \* history variable: what the current (or last) CheckForUpdates
                  \* listed, attempted and appended
    mu,           \* Storage.mu: whether a writer holds it, how many readers hold it
    th,           \* th[t]: the Storage method goroutine t is in, and where
    partial,      \* the files opened for writing (truncated) and not yet written
    cks,          \* cks[c]: the CheckForUpdates invocation of caller c, when several
                  \* callers run it at the same time
    rm,           \* the RemoveApp invocation (position, identifier, result)
    res,          \* the method, argument and result of the last Storage call made
                  \* directly
    snap,         \* history variable: the data directory as the first successful
                  \* TrackApp left it
    dm,           \* the process: the mode it was started in, the position of
                  \* main / handleDaemon, the context and the ticker
    fn            \* the arguments and the result of the last call of a function
                  \* that touches no file

lockVars == <<mu, th, partial>>
extVars == <<cks, rm, res, snap, dm, fn>>
vars == <<now, enabled, appsFile, updatesFile, ck, tr, firstTracked, chk, run, lockVars,
          extVars>>

\* ------------------------------------------------------------ data model
\* models.AppInfo, with notes for the catalog's free-form fields.
AppInfo(id, v, n, lc, fd) ==
    [bundleID |-> id, version |-> v, notes |-> n, lastChecked |-> lc, firstDiscovered |-> fd]

\* models.VersionUpdate.
VersionUpdate(id, old, new, at, n) ==
    [bundleID |-> id, oldVersion |-> old, newVersion |-> new, updatedAt |-> at, notes |-> n]

\* ------------------------------------------------------------ appstore
\* convertToAppInfo: the catalog's fields, LastChecked and FirstDiscovered = now.
convertToAppInfo(id, v, n, t) == AppInfo(id, v, n, t, t)

\* LookupByBundleID: the outcomes of one lookup of id at time t: an error (not
\* found by resultCount = 0, transport, non-200, timeout), the first result
\* converted, or a run-time panic at line 81 when the answer has a resultCount
\* other than 0 and no first result (no value is returned then).  The first
\* result is converted whatever bundle ID it carries (lines 81, 168): the
\* record returned is that of id or of another identifier.
LookupErr == [err |-> TRUE, panic |-> FALSE, app |-> None]
LookupPanic == [err |-> FALSE, panic |-> TRUE, app |-> None]
LookupByBundleID(id, t) ==
    {LookupErr, LookupPanic} \cup
    {[err |-> FALSE, panic |-> FALSE, app |-> Some(convertToAppInfo(j, v, n, t))] :
        j \in Ids, v \in Versions, n \in Notes}

\* ------------------------------------------------------------ storage
\* SaveApp: the apps file of app.BundleID holds app afterwards.
SaveApp(files, app) == [files EXCEPT ![app.bundleID] = Some(app)]

\* File contents that json.Unmarshal rejects before it decodes anything: an
\* empty file, a prefix of a document, text that is not JSON (a syntax error),
\* or a document that is not of the expected kind.
BadApp == AppInfo("#", "#", "#", 0, 0)
BadUpdates == <<VersionUpdate("#", "#", "#", 0, "#")>>
\* An element of a JSON array that is not an object (a type error for
\* json.Unmarshal), and the zero VersionUpdate json.Unmarshal leaves in its place.
WrongType == VersionUpdate("?", "?", "?", 0, "?")
ZeroUpdate == VersionUpdate("", "", "", 0, "")

\* json.Unmarshal returns an error for the content of an updates file.
MalformedUpdates(content) ==
    content = BadUpdates \/ \E k \in 1..Len(content) : content[k] = WrongType

\* The slice json.Unmarshal leaves behind: nothing of a content it rejects before
\* decoding; of an array with elements of a wrong type, every element, those of
\* the wrong type as zero records.
Decoded(content) ==
    IF content = BadUpdates THEN <<>>
    ELSE [k \in 1..Len(content) |-> IF content[k] = WrongType THEN ZeroUpdate ELSE content[k]]

\* LoadApp: the record returned: nil if the file does not exist (nil error) and
\* if json.Unmarshal rejects it (with an error), the decoded record otherwise.
LoadApp(files, id) == IF files[id] = Some(BadApp) THEN None ELSE files[id]

\* SaveVersionUpdate, lines 86-89: the slice read from the updates file; it stays
\* nil when os.ReadFile returns an error of any kind (no file, or an I/O error);
\* the error of json.Unmarshal is not looked at, the slice is what it decoded.
ReadUpdates(files, id, readErr) ==
    IF readErr \/ files[id] = None THEN <<>>
    ELSE Decoded(files[id][1])

\* SaveVersionUpdate, lines 86-101, with the outcome of its os.ReadFile: the
\* slice read, the new update appended, the whole slice written back.
SaveVersionUpdateIO(files, update, readErr) ==
    [files EXCEPT ![update.bundleID] =
        Some(Append(ReadUpdates(files, update.bundleID, readErr), update))]

\* SaveVersionUpdate when os.ReadFile does not fail with an I/O error.
SaveVersionUpdate(files, update) == SaveVersionUpdateIO(files, update, FALSE)

\* GetVersionUpdates: the slice returned: empty if the file does not exist, nil
\* (with an error) if json.Unmarshal rejects the file, else its content.
GetVersionUpdates(files, id) ==
    IF files[id] = None \/ MalformedUpdates(files[id][1]) THEN <<>> ELSE files[id][1]

\* GetAllApps: the records of the files of data/apps in directory order; a file
\* that cannot be read or decoded (those of bad) is skipped.
RECURSIVE GetAllAppsFrom(_, _, _)
GetAllAppsFrom(files, bad, k) ==
    IF k > Len(IdOrder) THEN <<>>
    ELSE LET id == IdOrder[k]
             rest == GetAllAppsFrom(files, bad, k + 1)
         IN  IF files[id] = None \/ id \in bad THEN rest ELSE <<files[id][1]>> \o rest
GetAllApps(files, bad) == GetAllAppsFrom(files, bad, 1)

\* The methods with their error results: err is "none" (nil), "io" (the file or
\* directory could not be read or written) or "decode" (json.Unmarshal failed).
\* LoadApp, lines 54-73: an error of os.ReadFile other than not-exist (ioErr)
\* is returned whether the file exists or not.
LoadAppResult(files, id, ioErr) ==
    IF ioErr THEN [err |-> "io", val |-> None]
    ELSE IF files[id] = None THEN [err |-> "none", val |-> None]
    ELSE IF files[id] = Some(BadApp) THEN [err |-> "decode", val |-> None]
    ELSE [err |-> "none", val |-> files[id]]

\* GetAllApps, lines 107-139: an error only if the directory cannot be read; a
\* file that cannot be read (unreadable) or decoded is skipped.
GetAllAppsResult(files, unreadable, dirErr) ==
    IF dirErr THEN [err |-> "io", val |-> <<>>]
    ELSE [err |-> "none",
          val |-> GetAllApps(files, unreadable \cup {id \in Ids : files[id] = Some(BadApp)})]

\* A GetVersionUpdates that reports a missing file as an error.
GetVersionUpdatesResult_AbsentIsError(files, id, ioErr) ==
    IF files[id] = None \/ ioErr THEN [err |-> "io", val |-> <<>>]
    ELSE IF MalformedUpdates(files[id][1]) THEN [err |-> "decode", val |-> <<>>]
    ELSE [err |-> "none", val |-> files[id][1]]

\* GetVersionUpdates, lines 142-162: as LoadApp for the error of os.ReadFile.
GetVersionUpdatesResult(files, id, ioErr) ==
    IF ioErr THEN [err |-> "io", val |-> <<>>]
    ELSE IF files[id] = None THEN [err |-> "none", val |-> <<>>]
    ELSE IF MalformedUpdates(files[id][1]) THEN [err |-> "decode", val |-> <<>>]
    ELSE [err |-> "none", val |-> files[id][1]]

\* os.WriteFile (lines 46, 99) opens the file with O_TRUNC, writes and closes,
\* and returns the first error of the three: when MkdirAll fails or the file
\* cannot be opened ("open") the file is as before; when the write fails
\* ("write") the file is left empty or with a prefix of the new content; when
\* only the close fails ("close") the file holds the whole new content and the
\* error is returned all the same.
WriteErrs == {"open", "write", "close"}
FailedWrite(files, id, writeErr, truncated, written) ==
    CASE writeErr = "write" -> [files EXCEPT ![id] = Some(truncated)]
      [] writeErr = "close" -> [files EXCEPT ![id] = Some(written)]
      [] OTHER -> files

\* SaveApp, lines 32-51, returning an error.
SaveAppFailed(files, app, writeErr) ==
    FailedWrite(files, app.bundleID, writeErr, BadApp, app)

\* SaveVersionUpdate, lines 76-104, returning an error: what it meant to
\* write is the slice it read (lines 87-89) with the update appended.
SaveVersionUpdateFailed(files, update, readErr, writeErr) ==
    FailedWrite(files, update.bundleID, writeErr, BadUpdates,
                Append(ReadUpdates(files, update.bundleID, readErr), update))

\* SaveVersionUpdate, lines 76-104: an error only if MkdirAll, MarshalIndent or
\* WriteFile fails (writeErr is one of WriteErrs, else "none").
SaveVersionUpdateResult(files, update, readErr, writeErr) ==
    IF writeErr # "none"
    THEN [err |-> "io", files |-> SaveVersionUpdateFailed(files, update, readErr, writeErr)]
    ELSE [err |-> "none", files |-> SaveVersionUpdateIO(files, update, readErr)]

\* ------------------------------------------------------------ tracker
\* TrackApp, lines 59-66: a first-time app keeps the timestamps of its lookup; an
\* app already stored keeps the stored FirstDiscovered.
TrackMerge(app, existing) ==
    IF existing = None THEN app
    ELSE [app EXCEPT !.firstDiscovered = existing[1].firstDiscovered]

\* A TrackApp that compares versions and records a change like checkSingleApp.
TrackWrite_Record(apps, upds, app) ==
    LET existing == apps[app.bundleID]
    IN  <<SaveApp(apps, app),
          IF existing # None /\ existing[1].version # app.version
          THEN SaveVersionUpdate(upds, VersionUpdate(app.bundleID, existing[1].version,
                                                     app.version, app.lastChecked,
                                                     app.notes))
          ELSE upds>>

\* TrackApp, lines 68-70: the only write of TrackApp is SaveApp(app); the updates
\* files are not touched.  The pair <<apps files, updates files>> afterwards.
TrackWrite(apps, upds, app) == <<SaveApp(apps, app), upds>>

\* checkSingleApp, line 116: the fetched record carries the stored FirstDiscovered.
PreserveFirstDiscovered(currentApp, existingApp) ==
    [currentApp EXCEPT !.firstDiscovered = existingApp.firstDiscovered]

\* checkSingleApp, line 119: exact string inequality.
VersionChanged(currentApp, existingApp) == currentApp.version # existingApp.version

\* checkSingleApp, lines 120-128: the update record, stamped with time.Now().
NewVersionUpdate(existingApp, currentApp, t) ==
    VersionUpdate(currentApp.bundleID, existingApp.version, currentApp.version, t,
                  currentApp.notes)

\* checkSingleApp, line 149: LastChecked = time.Now() on the no-change path.
TouchLastChecked(currentApp, t) == [currentApp EXCEPT !.lastChecked = t]

\* checkSingleApp, lines 149-152: the no-change path rewrites the whole record.
NoChangeWrite(apps, currentApp) == SaveApp(apps, currentApp)

\* A loop that checks the same item again.
NextItem_Stay(c) ==
    [c EXCEPT !.pc = "lookup", !.cur = None, !.update = None]

\* A loop that passes over the item after the one it has checked.
NextItem_Skip(c) ==
    [c EXCEPT !.pc = "lookup", !.i = c.i + 2, !.cur = None, !.update = None]

\* CheckForUpdates, line 84: the range loop moves on to the next item.
NextItem(c) ==
    [c EXCEPT !.pc = "lookup", !.i = c.i + 1, !.cur = None, !.update = None]

\* A loop that returns the error of the first failing item.
SkipItem_Abort(c) ==
    [c EXCEPT !.pc = "done", !.cur = None, !.update = None,
              !.ret = Some([updates |-> <<>>, err |-> TRUE])]

\* CheckForUpdates, lines 86-89: an item whose check returned an error is logged
\* and the loop continues.
SkipItem(c) == NextItem(c)

\* CheckForUpdates, lines 91-93: an item that returned an update adds it to the batch.
CollectUpdate(c) == [c EXCEPT !.updates = Append(c.updates, c.update[1])]

\* A CheckForUpdates that returns the notifier's error instead of logging it.
CheckResult_Escalate(updates, outcome) ==
    IF outcome = "fail" THEN [updates |-> <<>>, err |-> TRUE]
    ELSE [updates |-> updates, err |-> FALSE]

\* CheckForUpdates, lines 97-104: the notifier's outcome is logged only; the batch
\* is returned with a nil error.
CheckResult(updates, outcome) == [updates |-> updates, err |-> FALSE]

\* A CheckForUpdates that calls the notifier after every run.
ShouldNotify_Always(updates, en) == TRUE

\* CheckForUpdates, line 97: the notifier is called if the batch is not empty
\* and the notifier is enabled.
ShouldNotify(updates, en) == Len(updates) > 0 /\ en

\* CheckForUpdates, lines 77-80: listing failed.
ListError == [updates |-> <<>>, err |-> TRUE]

\* ------------------------------------------------------ storage, the mutex
\* The goroutines that call Storage methods at the same time; Tag(t) marks the
\* update records goroutine t passes to SaveVersionUpdate.
ThreadOrder == <<"g1", "g2">>
Threads == {ThreadOrder[k] : k \in 1..Len(ThreadOrder)}
Tag(t) == CHOOSE k \in 1..Len(ThreadOrder) : ThreadOrder[k] = t

\* Which side of the RWMutex each method takes: SaveApp and SaveVersionUpdate
\* call mu.Lock, the four readers call mu.RLock.
LockMode(op) == IF op \in {"SaveApp", "SaveVersionUpdate"} THEN "W" ELSE "R"

\* sync.RWMutex: Lock waits until no writer and no reader holds the mutex,
\* RLock until no writer holds it.
MuFree == [w |-> FALSE, r |-> 0]
CanLock(m, mode) == IF mode = "W" THEN ~m.w /\ m.r = 0 ELSE ~m.w
Locked(m, mode) == IF mode = "W" THEN [m EXCEPT !.w = TRUE] ELSE [m EXCEPT !.r = m.r + 1]
Unlocked(m, mode) == IF mode = "W" THEN [m EXCEPT !.w = FALSE] ELSE [m EXCEPT !.r = m.r - 1]

\* The file a method writes, and the files a method reads.
AppPath(id) == <<"apps", id>>
UpdatesPath(id) == <<"updates", id>>
WritePath(op, arg) == IF op = "SaveApp" THEN AppPath(arg.bundleID) ELSE UpdatesPath(arg.bundleID)
ReadPaths(op, arg) ==
    CASE op = "LoadApp" -> {AppPath(arg)}
      [] op = "GetAllApps" -> {AppPath(id) : id \in Ids}
      [] op = "GetVersionUpdates" -> {UpdatesPath(arg)}
      [] op = "GetRecentUpdates" -> {UpdatesPath(id) : id \in Ids}
      [] op = "SaveVersionUpdate" -> {UpdatesPath(arg.bundleID)}
      [] OTHER -> {}

\* buf: the slice SaveVersionUpdate read; done: the SaveVersionUpdate calls of
\* the goroutine that have returned nil; failed: a call of the goroutine has
\* returned an error; saw, sawRm: a call of the goroutine has read a file cut
\* short, a file of an identifier half removed.
ThIdle == [op |-> "none", pc |-> "idle", arg |-> None, saw |-> FALSE, sawRm |-> FALSE,
           buf |-> <<>>, done |-> 0, failed |-> FALSE]

\* -------------------------------------------------------------- initial state
\* sent: the batches handed to Notifier.NotifyUpdates by this invocation.
CkIdle == [pc |-> "idle", apps |-> <<>>, i |-> 1, updates |-> <<>>, cur |-> None,
           update |-> None, notify |-> "none", sent |-> <<>>, ret |-> None]
\* ioErr: a Storage call of this TrackApp failed.
TrIdle == [pc |-> "idle", id |-> "", t0 |-> 0, app |-> None, existing |-> None,
           ret |-> "none", ioErr |-> FALSE]
\* chk: the item checked (existing), the time of the check (t), the record the
\* lookup returned (fetched), the updates files when the check started and when
\* it returned, the apps file of the item when it returned, and how it ended:
\* "lookupErr", "appendErr", "saveErr", "changed" (an update returned) or "same";
\* readErr: the os.ReadFile inside its SaveVersionUpdate failed with an I/O error.
ChkNone == [phase |-> "none", id |-> "", t |-> 0, existing |-> None, fetched |-> None,
            updsBefore |-> None, updsAfter |-> None, appAfter |-> None,
            result |-> "none", readErr |-> FALSE]
\* run: whether GetAllApps succeeded, the identifiers it listed, the checks that
\* returned so far (identifier, result, update returned), the updates this
\* invocation wrote with SaveVersionUpdate, the updates files at the notifier call.
RunNone == [listOk |-> FALSE, listed |-> <<>>, outcomes |-> <<>>, appended |-> <<>>,
            updsAtFinish |-> None]

\* Callers that run CheckForUpdates at the same time on one Tracker.
Checkers == {"c1", "c2"}
\* at: the clock when the removal ran; had: the identifier had a record and a
\* history then.
RmIdle == [pc |-> "idle", id |-> "", ret |-> "none", at |-> 0, had |-> FALSE]
\* before: the file of the identifier the call works on, as it was before the
\* call; io: the call met an I/O error.
ResNone == [op |-> "none", id |-> "", err |-> "none", val |-> None, before |-> None,
            io |-> FALSE]

\* id: the identifier of the first TrackApp that succeeded; apps, upds: the
\* apps files and the updates files when it returned.
SnapNone == [id |-> "", apps |-> None, upds |-> None]
\* mode: the flag the process was started with ("daemon", or "default" for
\* none); apps: cfg.Apps; k: the position of main's loop over cfg.Apps;
\* enrolled: the identifiers main has called TrackApp for; sig: a signal is in
\* sigChan; cancelled: cancel() was called; ticker: the ticker runs; tick: a
\* tick is in ticker.C; first: the first check has been called.
DmIdle == [pc |-> "idle", mode |-> "", apps |-> <<>>, k |-> 1, enrolled |-> {},
           sig |-> FALSE, cancelled |-> FALSE, ticker |-> FALSE, tick |-> FALSE,
           first |-> FALSE]
\* arg: the arguments of the call; sent: what it handed to its collaborator;
\* out: what it returned.
FnNone == [op |-> "none", pc |-> "idle", arg |-> <<>>, sent |-> <<>>, out |-> <<>>]
\* The variables of the process and of the functions without files, at rest.
InitExt == snap = SnapNone /\ dm = DmIdle /\ fn = FnNone

\* The data directory outlives the process: it is empty, or an earlier run
\* (mavt -add) has tracked the first identifier, or every identifier, at
\* time 0.
EarlierApp == convertToAppInfo(IdOrder[1], "1.9", "n1", 0)
EarlierApps == [id \in Ids |-> Some(convertToAppInfo(id, "1.9", "n1", 0))]
InitStores ==
    {[apps |-> [id \in Ids |-> None], first |-> [id \in Ids |-> None]],
     [apps |-> SaveApp([id \in Ids |-> None], EarlierApp),
      first |-> [id \in Ids |-> IF id = IdOrder[1] THEN Some(0) ELSE None]],
     [apps |-> EarlierApps, first |-> [id \in Ids |-> Some(0)]]}

\* The process after main has built its Storage, Notifier and Tracker; the
\* notifier is enabled when an Apprise URL is configured and disabled by
\* default (config.go:41, notifier.go:23).  The history variable firstTracked is written
\* only where a property reads it (InitFirst); here it rests at time -1.
Init ==
    /\ now = 0
    /\ enabled \in BOOLEAN
    /\ \E st \in InitStores : appsFile = st.apps
    /\ firstTracked = [id \in Ids |-> Some(-1)]
    /\ updatesFile = [id \in Ids |-> None]
    /\ ck = CkIdle
    /\ tr = TrIdle
    /\ chk = ChkNone
    /\ run = RunNone
    /\ mu = MuFree
    /\ th = [t \in Threads |-> ThIdle]
    /\ partial = {}
    /\ cks = [c \in Checkers |-> CkIdle]
    /\ rm = RmIdle
    /\ res = ResNone
    /\ InitExt

\* The same process, with firstTracked holding the time of the first
\* successful TrackApp of every identifier an earlier run has tracked.
InitFirst ==
    /\ now = 0
    /\ enabled \in BOOLEAN
    /\ \E st \in InitStores : appsFile = st.apps /\ firstTracked = st.first
    /\ updatesFile = [id \in Ids |-> None]
    /\ ck = CkIdle
    /\ tr = TrIdle
    /\ chk = ChkNone
    /\ run = RunNone
    /\ mu = MuFree
    /\ th = [t \in Threads |-> ThIdle]
    /\ partial = {}
    /\ cks = [c \in Checkers |-> CkIdle]
    /\ rm = RmIdle
    /\ res = ResNone
    /\ InitExt

\* ------------------------------------------------------------ TrackApp steps
\* A TrackApp that reports success when the lookup failed.
TrackLookupFailed_Swallow(id) == [TrIdle EXCEPT !.pc = "done", !.id = id, !.ret = "ok"]

\* TrackApp, lines 49-51: the lookup failed; the error is returned at once.
TrackLookupFailed(id) == [TrIdle EXCEPT !.pc = "done", !.id = id, !.ret = "error"]

\* TrackApp, line 48: the lookup panicked; TrackApp does not return, the
\* panic goes up to its caller's goroutine.
TrackPanicked(id) == [TrIdle EXCEPT !.pc = "panic", !.id = id]

\* The panic of a lookup inside CheckForUpdates is recovered nowhere
\* (main.go:174): it ends the process, and with it every request being served.
ProcessRuns == ck.pc # "panic"

\* TrackApp(id), lines 48-51: the lookup.
TrackLookup(id) ==
    /\ tr.pc = "idle"
    /\ ProcessRuns
    /\ now < MaxTime
    /\ now' = now + 1
    /\ \E r \in LookupByBundleID(id, now + 1) :
          tr' = IF r.panic THEN TrackPanicked(id)
                ELSE IF r.err
                THEN TrackLookupFailed(id)
                ELSE [TrIdle EXCEPT !.pc = "load", !.id = id, !.t0 = now + 1, !.app = r.app]
    /\ UNCHANGED <<extVars, lockVars, enabled, appsFile, updatesFile, ck, firstTracked, chk, run>>

\* TrackApp, lines 54-66: LoadApp(bundleID), which may fail to read (an I/O
\* error) and fails on a file json.Unmarshal rejects, then the merge.
TrackLoad ==
    /\ tr.pc = "load"
    /\ ProcessRuns
    /\ \/ tr' = [tr EXCEPT !.pc = "done", !.ret = "error", !.ioErr = TRUE]
       \/ /\ LoadAppResult(appsFile, tr.id, FALSE).err = "decode"
          /\ tr' = [tr EXCEPT !.pc = "done", !.ret = "error"]
       \/ /\ LoadAppResult(appsFile, tr.id, FALSE).err = "none"
          /\ tr' = [tr EXCEPT !.pc = "save",
                              !.existing = LoadApp(appsFile, tr.id),
                              !.app = Some(TrackMerge(tr.app[1], LoadApp(appsFile, tr.id)))]
    /\ UNCHANGED <<extVars, lockVars, now, enabled, appsFile, updatesFile, ck, firstTracked, chk, run>>

\* TrackApp, lines 68-72: SaveApp(app), which may fail to write; a write that
\* fails after the file was opened leaves it truncated, and one whose close
\* fails leaves the new record in the file.
TrackSave ==
    /\ tr.pc = "save"
    /\ ProcessRuns
    /\ \/ /\ tr' = [tr EXCEPT !.pc = "done", !.ret = "error", !.ioErr = TRUE]
          /\ \E w \in WriteErrs : appsFile' = SaveAppFailed(appsFile, tr.app[1], w)
          /\ UNCHANGED <<updatesFile, firstTracked>>
       \/ /\ tr' = [tr EXCEPT !.pc = "done", !.ret = "ok"]
          /\ appsFile' = TrackWrite(appsFile, updatesFile, tr.app[1])[1]
          /\ updatesFile' = TrackWrite(appsFile, updatesFile, tr.app[1])[2]
          /\ firstTracked' = IF firstTracked[tr.id] = None
                             THEN [firstTracked EXCEPT ![tr.id] = Some(tr.t0)]
                             ELSE firstTracked
    /\ UNCHANGED <<extVars, lockVars, now, enabled, ck, chk, run>>

\* The caller of TrackApp takes the result; a panic inside a request handler
\* is recovered by net/http, which closes the connection of that request.
TrackReturn ==
    /\ tr.pc \in {"done", "panic"}
    /\ ProcessRuns
    /\ tr' = TrIdle
    /\ UNCHANGED <<extVars, lockVars, now, enabled, appsFile, updatesFile, ck, firstTracked, chk, run>>

\* ----------------------------------------------------- CheckForUpdates steps
\* CheckForUpdates, lines 77-82: GetAllApps, which may fail as a whole or skip
\* the files it cannot read.  An invocation begins while the clock is below
\* its bound: no lookup could follow one begun later.
CheckStart ==
    /\ ck.pc = "idle"
    /\ now < MaxTime
    /\ \/ /\ ck' = [CkIdle EXCEPT !.pc = "done", !.ret = Some(ListError)]
          /\ run' = RunNone
       \/ \E unreadable \in SUBSET {id \in Ids : LoadApp(appsFile, id) # None} :
             LET apps == GetAllAppsResult(appsFile, unreadable, FALSE).val
             IN  /\ ck' = [CkIdle EXCEPT !.pc = "lookup", !.apps = apps]
                 /\ run' = [RunNone EXCEPT
                              !.listOk = TRUE,
                              !.listed = [k \in 1..Len(apps) |-> apps[k].bundleID]]
    /\ chk' = ChkNone
    /\ UNCHANGED <<extVars, lockVars, now, enabled, appsFile, updatesFile, tr, firstTracked>>

\* The history variable run when the check of an item returns.
Outcome(id, result, update) ==
    [run EXCEPT !.outcomes = Append(run.outcomes,
                                    [id |-> id, result |-> result, update |-> update])]

\* checkSingleApp, lines 110-133 and 149: the lookup of the next item, the
\* comparison and the records built from it.
CheckLookup ==
    /\ ck.pc = "lookup"
    /\ ck.i <= Len(ck.apps)
    /\ now < MaxTime
    /\ now' = now + 1
    /\ LET existingApp == ck.apps[ck.i]
           id == existingApp.bundleID
           t == now + 1
           seen == [ChkNone EXCEPT !.phase = "running", !.id = id, !.t = t,
                                   !.existing = Some(existingApp),
                                   !.updsBefore = Some(updatesFile)]
       IN  \E r \in LookupByBundleID(id, t) :
             IF r.panic
             THEN /\ ck' = [ck EXCEPT !.pc = "panic"]
                  /\ chk' = [seen EXCEPT !.phase = "panicked"]
                  /\ run' = run
             ELSE IF r.err
             THEN /\ ck' = SkipItem(ck)
                  /\ chk' = [seen EXCEPT !.phase = "returned", !.result = "lookupErr",
                                         !.updsAfter = Some(updatesFile),
                                         !.appAfter = appsFile[id]]
                  /\ run' = Outcome(id, "lookupErr", None)
             ELSE LET currentApp == PreserveFirstDiscovered(r.app[1], existingApp)
                  IN  /\ chk' = [seen EXCEPT !.fetched = r.app]
                      /\ run' = run
                      /\ ck' = IF VersionChanged(currentApp, existingApp)
                               THEN [ck EXCEPT
                                      !.pc = "append",
                                      !.cur = Some(currentApp),
                                      !.update = Some(NewVersionUpdate(existingApp,
                                                                       currentApp, t))]
                               ELSE [ck EXCEPT
                                      !.pc = "saveSame",
                                      !.cur = Some(TouchLastChecked(currentApp, t))]
    /\ UNCHANGED <<extVars, lockVars, enabled, appsFile, updatesFile, tr, firstTracked>>

\* The history variable chk when the check of an item returns.
Returned(result, apps, upds) ==
    [chk EXCEPT !.phase = "returned", !.result = result,
                !.updsAfter = Some(upds),
                !.appAfter = apps[chk.id]]

\* checkSingleApp, lines 136-138: SaveVersionUpdate.  It returns an error when
\* MkdirAll or WriteFile fails; a failing write leaves the file truncated and
\* a failing close leaves the new history in the file.  When its ReadFile of
\* an existing file fails (readErr, line 87) it goes on with a nil slice
\* whatever the write does next, and returns nil if the write succeeds.
CheckAppend ==
    /\ ck.pc = "append"
    /\ \/ /\ \E w \in WriteErrs :
                \E readErr \in (IF updatesFile[ck.update[1].bundleID] = None
                                THEN {FALSE} ELSE BOOLEAN) :
                /\ updatesFile' = SaveVersionUpdateFailed(updatesFile, ck.update[1],
                                                          readErr, w)
                /\ chk' = [Returned("appendErr", appsFile, updatesFile')
                             EXCEPT !.readErr = readErr]
          /\ ck' = SkipItem(ck)
          /\ run' = Outcome(chk.id, "appendErr", None)
       \/ \E readErr \in (IF updatesFile[ck.update[1].bundleID] = None
                          THEN {FALSE} ELSE BOOLEAN) :
             /\ updatesFile' = SaveVersionUpdateIO(updatesFile, ck.update[1], readErr)
             /\ ck' = [ck EXCEPT !.pc = "saveNew"]
             /\ run' = [run EXCEPT !.appended = Append(run.appended, ck.update[1])]
             /\ chk' = [chk EXCEPT !.readErr = readErr]
    /\ UNCHANGED <<extVars, lockVars, now, enabled, appsFile, tr, firstTracked>>

\* checkSingleApp, lines 141-145: SaveApp(currentApp), which may fail to write;
\* on success the update is returned and joins the batch.
CheckSaveNew ==
    /\ ck.pc = "saveNew"
    /\ \/ /\ \E w \in WriteErrs : appsFile' = SaveAppFailed(appsFile, ck.cur[1], w)
          /\ ck' = SkipItem(ck)
          /\ chk' = Returned("saveErr", appsFile', updatesFile)
          /\ run' = Outcome(chk.id, "saveErr", None)
       \/ /\ appsFile' = SaveApp(appsFile, ck.cur[1])
          /\ ck' = NextItem(CollectUpdate(ck))
          /\ chk' = Returned("changed", appsFile', updatesFile)
          /\ run' = Outcome(chk.id, "changed", ck.update)
    /\ UNCHANGED <<extVars, lockVars, now, enabled, updatesFile, tr, firstTracked>>

\* checkSingleApp, lines 149-154: the no-change path.
CheckSaveSame ==
    /\ ck.pc = "saveSame"
    /\ \/ /\ \E w \in WriteErrs : appsFile' = SaveAppFailed(appsFile, ck.cur[1], w)
          /\ ck' = SkipItem(ck)
          /\ chk' = Returned("saveErr", appsFile', updatesFile)
          /\ run' = Outcome(chk.id, "saveErr", None)
       \/ /\ appsFile' = NoChangeWrite(appsFile, ck.cur[1])
          /\ ck' = NextItem(ck)
          /\ chk' = Returned("same", appsFile', updatesFile)
          /\ run' = Outcome(chk.id, "same", None)
    /\ UNCHANGED <<extVars, lockVars, now, enabled, updatesFile, tr, firstTracked>>

\* CheckForUpdates, lines 96-104: after the last item, the notifier is called if
\* there are updates and it is enabled; its call succeeds or fails.
CheckFinish ==
    /\ ck.pc = "lookup"
    /\ ck.i > Len(ck.apps)
    /\ IF ShouldNotify(ck.updates, enabled)
       THEN \E outcome \in {"ok", "fail"} :
               ck' = [ck EXCEPT !.pc = "done", !.notify = outcome,
                                !.sent = Append(ck.sent, ck.updates),
                                !.ret = Some(CheckResult(ck.updates, outcome))]
       ELSE ck' = [ck EXCEPT !.pc = "done", !.notify = "none",
                             !.ret = Some(CheckResult(ck.updates, "none"))]
    /\ run' = [run EXCEPT !.updsAtFinish = Some(updatesFile)]
    /\ UNCHANGED <<extVars, lockVars, now, enabled, appsFile, updatesFile, tr, firstTracked, chk>>

\* The caller of CheckForUpdates (handleCheckNow) takes the result.
CheckReturn ==
    /\ ck.pc = "done"
    /\ ck' = CkIdle
    /\ chk' = ChkNone
    /\ run' = RunNone
    /\ UNCHANGED <<extVars, lockVars, now, enabled, appsFile, updatesFile, tr, firstTracked>>

Next ==
    \/ \E id \in Ids : TrackLookup(id)
    \/ TrackLoad
    \/ TrackSave
    \/ TrackReturn
    \/ CheckStart
    \/ CheckLookup
    \/ CheckAppend
    \/ CheckSaveNew
    \/ CheckSaveSame
    \/ CheckFinish
    \/ CheckReturn

Spec == Init /\ [][Next]_vars

\* Spec with the history variable firstTracked.
SpecFirst == InitFirst /\ [][Next]_vars

\* ------------------------------------------- Storage methods called directly
\* The calls goroutines make: a method and its argument.
LockId == IdOrder[1]
Calls(t) ==
    {[op |-> "SaveApp", arg |-> Some(convertToAppInfo(LockId, v, "n1", 0))] : v \in Versions}
    \cup {[op |-> "SaveVersionUpdate",
           arg |-> Some(VersionUpdate(LockId, "1.9", "2.0", Tag(t), "n1"))]}
    \cup {[op |-> o, arg |-> Some(LockId)] : o \in {"LoadApp", "GetVersionUpdates"}}
    \cup {[op |-> o, arg |-> None] : o \in {"GetAllApps", "GetRecentUpdates"}}

Holds(t) == th[t].pc \in {"cs", "trunc", "write", "unlock", "unlockErr"}
ArgOf(t) == IF th[t].arg = None THEN None ELSE th[t].arg[1]

\* The files of the identifiers whose removal has deleted the history and not
\* yet the record.
Removing ==
    UNION {{AppPath(ArgOf(t)), UpdatesPath(ArgOf(t))} :
              t \in {u \in Threads : th[u].pc = "rm2"}}

\* A goroutine calls a Storage method and reaches its mu.Lock / mu.RLock.
StCall(t) ==
    /\ th[t].pc = "idle"
    /\ \E c \in Calls(t) :
          /\ c.op = "SaveVersionUpdate" =>
                /\ Len(GetVersionUpdates(updatesFile, LockId))
                      + Cardinality({u \in Threads : th[u].op = "SaveVersionUpdate"})
                          < MaxHist
                /\ th[t].done < MaxHist
          /\ th' = [th EXCEPT ![t] = [ThIdle EXCEPT !.op = c.op, !.arg = c.arg, !.pc = "lock",
                                                    !.done = th[t].done,
                                                    !.failed = th[t].failed]]
    /\ UNCHANGED <<extVars, now, enabled, appsFile, updatesFile, ck, tr, firstTracked, chk, run,
                   mu, partial>>

\* mu.Lock() / mu.RLock() returns.
StAcquire(t) ==
    /\ th[t].pc = "lock"
    /\ CanLock(mu, LockMode(th[t].op))
    /\ mu' = Locked(mu, LockMode(th[t].op))
    /\ th' = [th EXCEPT ![t].pc = "cs"]
    /\ UNCHANGED <<extVars, now, enabled, appsFile, updatesFile, ck, tr, firstTracked, chk, run,
                   partial>>

\* os.ReadFile / os.ReadDir of a reading method, and the read of
\* SaveVersionUpdate (lines 86-89): the goroutine sees a half-written file if
\* one of the files it reads is truncated and not yet written, and a half-removed
\* identifier if one of them belongs to a removal under way; the slice of
\* SaveVersionUpdate is what json.Unmarshal decodes of the file, nil if the
\* file is truncated or its os.ReadFile fails (readErr, line 87).
StRead(t) ==
    /\ th[t].pc = "cs"
    /\ th[t].op # "SaveApp"
    /\ \E readErr \in (IF th[t].op = "SaveVersionUpdate"
                           /\ updatesFile[ArgOf(t).bundleID] # None
                        THEN BOOLEAN ELSE {FALSE}) :
          th' = [th EXCEPT ![t].saw = (ReadPaths(th[t].op, ArgOf(t)) \cap partial # {}),
                           ![t].sawRm = (ReadPaths(th[t].op, ArgOf(t)) \cap Removing # {}),
                           ![t].buf = IF th[t].op = "SaveVersionUpdate"
                                      THEN ReadUpdates(updatesFile, ArgOf(t).bundleID,
                                                       readErr \/ UpdatesPath(ArgOf(t).bundleID)
                                                                     \in partial)
                                      ELSE <<>>,
                           ![t].pc = IF th[t].op = "SaveVersionUpdate" THEN "trunc"
                                     ELSE "unlock"]
    /\ UNCHANGED <<extVars, now, enabled, appsFile, updatesFile, ck, tr, firstTracked, chk, run,
                   mu, partial>>

\* os.WriteFile opens the file with O_TRUNC: its old content is gone and the
\* new one is not yet there.  When MkdirAll fails or the file cannot be opened
\* the method returns its error and the file is as before.
StTruncate(t) ==
    /\ \/ th[t].pc = "cs" /\ th[t].op = "SaveApp"
       \/ th[t].pc = "trunc"
    /\ \/ /\ partial' = partial \cup {WritePath(th[t].op, ArgOf(t))}
          /\ th' = [th EXCEPT ![t].pc = "write"]
       \/ /\ th' = [th EXCEPT ![t].pc = "unlockErr"]
          /\ UNCHANGED partial
    /\ UNCHANGED <<extVars, now, enabled, appsFile, updatesFile, ck, tr, firstTracked, chk, run,
                   mu>>

\* os.WriteFile writes the marshalled data and closes the file: the record of
\* SaveApp, or the slice SaveVersionUpdate read with the update appended
\* (lines 92-101).  When the write fails the method returns its error (lines
\* 46-48, 99-101) and the file stays truncated; when only the close fails the
\* method returns its error and the file holds what was written.
StWrite(t) ==
    /\ th[t].pc = "write"
    /\ \/ /\ partial' = partial \ {WritePath(th[t].op, ArgOf(t))}
          /\ IF th[t].op = "SaveApp"
             THEN appsFile' = SaveApp(appsFile, ArgOf(t)) /\ UNCHANGED updatesFile
             ELSE /\ updatesFile' = [updatesFile EXCEPT ![ArgOf(t).bundleID] =
                                        Some(Append(th[t].buf, ArgOf(t)))]
                  /\ UNCHANGED appsFile
          /\ th' = [th EXCEPT ![t].pc = "unlock"]
       \/ /\ UNCHANGED partial
          /\ IF th[t].op = "SaveApp"
             THEN /\ appsFile' = SaveAppFailed(appsFile, ArgOf(t), "write")
                  /\ UNCHANGED updatesFile
             ELSE /\ updatesFile' = SaveVersionUpdateFailed(updatesFile, ArgOf(t),
                                                            FALSE, "write")
                  /\ UNCHANGED appsFile
          /\ th' = [th EXCEPT ![t].pc = "unlockErr"]
       \/ /\ partial' = partial \ {WritePath(th[t].op, ArgOf(t))}
          /\ IF th[t].op = "SaveApp"
             THEN /\ appsFile' = SaveAppFailed(appsFile, ArgOf(t), "close")
                  /\ UNCHANGED updatesFile
             ELSE /\ updatesFile' = [updatesFile EXCEPT ![ArgOf(t).bundleID] =
                                        Some(Append(th[t].buf, ArgOf(t)))]
                  /\ UNCHANGED appsFile
          /\ th' = [th EXCEPT ![t].pc = "unlockErr"]
    /\ UNCHANGED <<extVars, now, enabled, ck, tr, firstTracked, chk, run, mu>>

\* The deferred mu.Unlock() / mu.RUnlock(); the method returns, nil or its
\* error.
StRelease(t) ==
    /\ th[t].pc \in {"unlock", "unlockErr"}
    /\ mu' = Unlocked(mu, LockMode(th[t].op))
    /\ th' = [th EXCEPT ![t] = [ThIdle EXCEPT
                                  !.saw = th[t].saw,
                                  !.sawRm = th[t].sawRm,
                                  !.failed = (th[t].failed \/ th[t].pc = "unlockErr"),
                                  !.done = IF th[t].op = "SaveVersionUpdate"
                                              /\ th[t].pc = "unlock"
                                           THEN th[t].done + 1 ELSE th[t].done]]
    /\ UNCHANGED <<extVars, now, enabled, appsFile, updatesFile, ck, tr, firstTracked, chk, run,
                   partial>>

\* A record an earlier run left in the history.
EarlierUpdate == VersionUpdate(LockId, "2.0", "1.9", 0, "n1")

InitLock ==
    /\ now = 0
    /\ enabled = FALSE
    /\ appsFile = [id \in Ids |-> None]
    /\ firstTracked = [id \in Ids |-> None]
    /\ updatesFile \in {[id \in Ids |-> None],
                        SaveVersionUpdate([id \in Ids |-> None], EarlierUpdate)}
    /\ ck = CkIdle
    /\ tr = TrIdle
    /\ chk = ChkNone
    /\ run = RunNone
    /\ mu = MuFree
    /\ th = [t \in Threads |-> ThIdle]
    /\ partial = {}
    /\ cks = [c \in Checkers |-> CkIdle]
    /\ rm = RmIdle
    /\ res = ResNone
    /\ InitExt

NextLock ==
    \/ \E t \in Threads : StCall(t)
    \/ \E t \in Threads : StAcquire(t)
    \/ \E t \in Threads : StRead(t)
    \/ \E t \in Threads : StTruncate(t)
    \/ \E t \in Threads : StWrite(t)
    \/ \E t \in Threads : StRelease(t)

\* Goroutines calling the methods of one Storage instance at the same time.
SpecLock == InitLock /\ [][NextLock]_vars

\* ------------------------------------------- removal under the store's lock
\* A removal that takes the read lock.
RemoveLockMode_Read(op) == "R"

\* removeItem of the Record Store mutates: it takes the exclusive lock.
RemoveLockMode(op) == "W"

RmHolds(t) == th[t].pc \in {"rm1", "rm2", "rmunlock"}

\* A goroutine calls the removal of LockId and reaches its lock.
RmCall(t) ==
    /\ th[t].pc = "idle"
    /\ appsFile[LockId] # None /\ updatesFile[LockId] # None
    /\ th' = [th EXCEPT ![t] = [ThIdle EXCEPT !.op = "RemoveApp", !.arg = Some(LockId),
                                              !.pc = "rmlock", !.done = th[t].done,
                                              !.failed = th[t].failed]]
    /\ UNCHANGED <<extVars, now, enabled, appsFile, updatesFile, ck, tr, firstTracked, chk,
                   run, mu, partial>>

\* The lock of the removal is granted.
RmAcquire(t) ==
    /\ th[t].pc = "rmlock"
    /\ CanLock(mu, RemoveLockMode(th[t].op))
    /\ mu' = Locked(mu, RemoveLockMode(th[t].op))
    /\ th' = [th EXCEPT ![t].pc = "rm1"]
    /\ UNCHANGED <<extVars, now, enabled, appsFile, updatesFile, ck, tr, firstTracked, chk,
                   run, partial>>

\* The removal deletes the history file.
RmDeleteUpdates(t) ==
    /\ th[t].pc = "rm1"
    /\ updatesFile' = [updatesFile EXCEPT ![ArgOf(t)] = None]
    /\ partial' = partial \ {UpdatesPath(ArgOf(t))}
    /\ th' = [th EXCEPT ![t].pc = "rm2"]
    /\ UNCHANGED <<extVars, now, enabled, appsFile, ck, tr, firstTracked, chk, run, mu>>

\* The removal deletes the current-state record.
RmDeleteApp(t) ==
    /\ th[t].pc = "rm2"
    /\ appsFile' = [appsFile EXCEPT ![ArgOf(t)] = None]
    /\ partial' = partial \ {AppPath(ArgOf(t))}
    /\ th' = [th EXCEPT ![t].pc = "rmunlock"]
    /\ UNCHANGED <<extVars, now, enabled, updatesFile, ck, tr, firstTracked, chk, run, mu>>

\* The removal unlocks and returns.
RmRelease(t) ==
    /\ th[t].pc = "rmunlock"
    /\ mu' = Unlocked(mu, RemoveLockMode(th[t].op))
    /\ th' = [th EXCEPT ![t] = [ThIdle EXCEPT !.saw = th[t].saw, !.sawRm = th[t].sawRm,
                                              !.done = th[t].done,
                                              !.failed = th[t].failed]]
    /\ UNCHANGED <<extVars, now, enabled, appsFile, updatesFile, ck, tr, firstTracked, chk,
                   run, partial>>

\* An earlier run has tracked LockId and recorded one change.
InitLockRm ==
    /\ now = 0
    /\ enabled = FALSE
    /\ appsFile = SaveApp([id \in Ids |-> None], EarlierApp)
    /\ firstTracked = [id \in Ids |-> None]
    /\ updatesFile = SaveVersionUpdate([id \in Ids |-> None], EarlierUpdate)
    /\ ck = CkIdle
    /\ tr = TrIdle
    /\ chk = ChkNone
    /\ run = RunNone
    /\ mu = MuFree
    /\ th = [t \in Threads |-> ThIdle]
    /\ partial = {}
    /\ cks = [c \in Checkers |-> CkIdle]
    /\ rm = RmIdle
    /\ res = ResNone
    /\ InitExt

NextLockRm ==
    \/ NextLock
    \/ \E t \in Threads : RmCall(t)
    \/ \E t \in Threads : RmAcquire(t)
    \/ \E t \in Threads : RmDeleteUpdates(t)
    \/ \E t \in Threads : RmDeleteApp(t)
    \/ \E t \in Threads : RmRelease(t)

\* Goroutines calling the methods of one Storage, the removal included.
SpecLockRm == InitLockRm /\ [][NextLockRm]_vars

\* ------------------------------------------------------------- RemoveApp
\* removeItem of the Record Store: both the current-state record and the whole
\* history of the identifier are deleted.  The pair <<apps files, updates files>>.
RemoveFiles(apps, upds, id) ==
    <<[apps EXCEPT ![id] = None], [upds EXCEPT ![id] = None]>>

\* handleTrack, DELETE: Tracker.RemoveApp(id) delegates to the Record Store, whose
\* removal is one call under the store's lock; it fails as a whole or deletes both.
RemoveCall(id) ==
    /\ rm.pc = "idle"
    /\ \/ /\ rm' = [RmIdle EXCEPT !.pc = "done", !.id = id, !.ret = "error", !.at = now]
          /\ UNCHANGED <<appsFile, updatesFile, firstTracked>>
       \/ /\ rm' = [RmIdle EXCEPT !.pc = "done", !.id = id, !.ret = "ok", !.at = now,
                                   !.had = (appsFile[id] # None /\ updatesFile[id] # None)]
          /\ appsFile' = RemoveFiles(appsFile, updatesFile, id)[1]
          /\ updatesFile' = RemoveFiles(appsFile, updatesFile, id)[2]
          /\ firstTracked' = [firstTracked EXCEPT ![id] = None]
    /\ UNCHANGED <<lockVars, now, enabled, ck, tr, chk, run, cks, res, snap, dm, fn>>

\* handleTrack answers the DELETE request.
RemoveReturn ==
    /\ rm.pc = "done"
    /\ rm' = [rm EXCEPT !.pc = "idle"]
    /\ UNCHANGED <<lockVars, now, enabled, appsFile, updatesFile, ck, tr, firstTracked, chk,
                   run, cks, res, snap, dm, fn>>

\* An earlier run has tracked the first identifier and recorded one change.
InitRemove ==
    /\ now = 0
    /\ enabled = FALSE
    /\ \E st \in InitStores :
          /\ appsFile = st.apps
          /\ firstTracked = st.first
          /\ updatesFile = IF st.apps[IdOrder[1]] = None THEN [id \in Ids |-> None]
                           ELSE SaveVersionUpdate([id \in Ids |-> None],
                                                  VersionUpdate(IdOrder[1], "2.0", "1.9", 0, "n1"))
    /\ ck = CkIdle
    /\ tr = TrIdle
    /\ chk = ChkNone
    /\ run = RunNone
    /\ mu = MuFree
    /\ th = [t \in Threads |-> ThIdle]
    /\ partial = {}
    /\ cks = [c \in Checkers |-> CkIdle]
    /\ rm = RmIdle
    /\ res = ResNone
    /\ InitExt

NextRemove ==
    \/ \E id \in Ids : TrackLookup(id)
    \/ TrackLoad
    \/ TrackSave
    \/ TrackReturn
    \/ \E id \in Ids : RemoveCall(id)
    \/ RemoveReturn

\* TrackApp and RemoveApp requests served at the same time (handleTrack).
SpecRemove == InitRemove /\ [][NextRemove]_vars

\* ----------------------------------- Storage methods, one call at a time
storeVars == <<now, enabled, ck, tr, firstTracked, chk, run, lockVars, cks, rm, snap, dm, fn>>

StoreLoadApp(id) ==
    /\ \E ioErr \in BOOLEAN :
          LET r == LoadAppResult(appsFile, id, ioErr)
          IN  res' = [op |-> "LoadApp", id |-> id, err |-> r.err, val |-> r.val,
                      before |-> appsFile[id], io |-> ioErr]
    /\ UNCHANGED <<storeVars, appsFile, updatesFile>>

StoreGetAllApps ==
    /\ \E dirErr \in BOOLEAN, unreadable \in SUBSET {id \in Ids : appsFile[id] # None} :
          LET r == GetAllAppsResult(appsFile, unreadable, dirErr)
          IN  res' = [op |-> "GetAllApps", id |-> "", err |-> r.err, val |-> r.val,
                      before |-> None, io |-> (dirErr \/ unreadable # {})]
    /\ UNCHANGED <<storeVars, appsFile, updatesFile>>

StoreGetVersionUpdates(id) ==
    /\ \E ioErr \in BOOLEAN :
          LET r == GetVersionUpdatesResult(updatesFile, id, ioErr)
          IN  res' = [op |-> "GetVersionUpdates", id |-> id, err |-> r.err, val |-> r.val,
                      before |-> updatesFile[id], io |-> ioErr]
    /\ UNCHANGED <<storeVars, appsFile, updatesFile>>

StoreSaveVersionUpdate(id) ==
    /\ Len(ReadUpdates(updatesFile, id, FALSE)) < MaxHist
    /\ \E writeErr \in {"none"} \cup WriteErrs,
          readErr \in (IF updatesFile[id] = None THEN {FALSE} ELSE BOOLEAN) :
          LET r == SaveVersionUpdateResult(updatesFile,
                                           VersionUpdate(id, "1.9", "2.0", 0, "n1"),
                                           readErr, writeErr)
          IN  /\ updatesFile' = r.files
              /\ res' = [op |-> "SaveVersionUpdate", id |-> id, err |-> r.err, val |-> None,
                         before |-> updatesFile[id],
                         io |-> (readErr \/ writeErr # "none")]
    /\ UNCHANGED <<storeVars, appsFile>>

\* A data directory left by earlier runs: every file is missing, well-formed or
\* malformed; a malformed history is one json.Unmarshal rejects whole or one
\* with an element of a wrong type behind a record.
InitStore ==
    /\ now = 0
    /\ enabled = FALSE
    /\ appsFile \in [Ids -> {None, Some(BadApp)}
                              \cup {Some(convertToAppInfo(id, "1.9", "n1", 0)) : id \in Ids}]
    /\ \A id \in Ids : appsFile[id] \notin {None, Some(BadApp)} => appsFile[id][1].bundleID = id
    /\ updatesFile \in [Ids -> {None, Some(<<>>), Some(BadUpdates)}
                                 \cup {Some(<<VersionUpdate(id, "2.0", "1.9", 0, "n1")>>) :
                                          id \in Ids}
                                 \cup {Some(<<VersionUpdate(id, "2.0", "1.9", 0, "n1"),
                                              WrongType>>) : id \in Ids}]
    /\ \A id \in Ids :
          (updatesFile[id] \notin {None, Some(BadUpdates)} /\ updatesFile[id][1] # <<>>)
              => updatesFile[id][1][1].bundleID = id
    /\ firstTracked = [id \in Ids |-> None]
    /\ ck = CkIdle
    /\ tr = TrIdle
    /\ chk = ChkNone
    /\ run = RunNone
    /\ mu = MuFree
    /\ th = [t \in Threads |-> ThIdle]
    /\ partial = {}
    /\ cks = [c \in Checkers |-> CkIdle]
    /\ rm = RmIdle
    /\ res = ResNone
    /\ InitExt

NextStore ==
    \/ \E id \in Ids : StoreLoadApp(id)
    \/ StoreGetAllApps
    \/ \E id \in Ids : StoreGetVersionUpdates(id)
    \/ \E id \in Ids : StoreSaveVersionUpdate(id)

\* The methods of Storage called one at a time on any data directory.
SpecStore == InitStore /\ [][NextStore]_vars

\* ------------------------------------- CheckForUpdates called concurrently
\* The catalog has moved every application from "1.9" to "2.0" once, before the
\* first check; every lookup succeeds and every Storage call succeeds.
CatalogVersion == "2.0"
LookupNow(id, t) ==
    {r \in LookupByBundleID(id, t) :
        ~r.err /\ ~r.panic /\ r.app[1].version = CatalogVersion}

twoVars == <<enabled, tr, firstTracked, chk, run, ck, lockVars, rm, res, snap, dm, fn>>

\* CheckForUpdates, lines 77-82, of caller c: GetAllApps.
TwoStart(c) ==
    /\ cks[c].pc = "idle"
    /\ now < MaxTime
    /\ cks' = [cks EXCEPT ![c] = [CkIdle EXCEPT !.pc = "lookup",
                                                !.apps = GetAllApps(appsFile, {})]]
    /\ UNCHANGED <<twoVars, now, appsFile, updatesFile>>

\* checkSingleApp, lines 110-133 and 149, of caller c.
TwoLookup(c) ==
    /\ cks[c].pc = "lookup"
    /\ cks[c].i <= Len(cks[c].apps)
    /\ now < MaxTime
    /\ now' = now + 1
    /\ LET existingApp == cks[c].apps[cks[c].i]
       IN  \E r \in LookupNow(existingApp.bundleID, now + 1) :
             LET currentApp == PreserveFirstDiscovered(r.app[1], existingApp)
             IN  cks' = [cks EXCEPT ![c] =
                           IF VersionChanged(currentApp, existingApp)
                           THEN [cks[c] EXCEPT
                                   !.pc = "append",
                                   !.cur = Some(currentApp),
                                   !.update = Some(NewVersionUpdate(existingApp, currentApp,
                                                                    now + 1))]
                           ELSE [cks[c] EXCEPT
                                   !.pc = "saveSame",
                                   !.cur = Some(TouchLastChecked(currentApp, now + 1))]]
    /\ UNCHANGED <<twoVars, appsFile, updatesFile>>

\* checkSingleApp, lines 136-138, of caller c: SaveVersionUpdate.
TwoAppend(c) ==
    /\ cks[c].pc = "append"
    /\ updatesFile' = SaveVersionUpdate(updatesFile, cks[c].update[1])
    /\ cks' = [cks EXCEPT ![c].pc = "saveNew"]
    /\ UNCHANGED <<twoVars, now, appsFile>>

\* checkSingleApp, lines 141-145, of caller c: SaveApp, the update is returned.
TwoSaveNew(c) ==
    /\ cks[c].pc = "saveNew"
    /\ appsFile' = SaveApp(appsFile, cks[c].cur[1])
    /\ cks' = [cks EXCEPT ![c] = NextItem(CollectUpdate(cks[c]))]
    /\ UNCHANGED <<twoVars, now, updatesFile>>

\* checkSingleApp, lines 149-154, of caller c: the no-change path.
TwoSaveSame(c) ==
    /\ cks[c].pc = "saveSame"
    /\ appsFile' = NoChangeWrite(appsFile, cks[c].cur[1])
    /\ cks' = [cks EXCEPT ![c] = NextItem(cks[c])]
    /\ UNCHANGED <<twoVars, now, updatesFile>>

\* CheckForUpdates, lines 96-104, of caller c: the loop is over, it returns.
TwoReturn(c) ==
    /\ cks[c].pc = "lookup"
    /\ cks[c].i > Len(cks[c].apps)
    /\ cks' = [cks EXCEPT ![c] = CkIdle]
    /\ UNCHANGED <<twoVars, now, appsFile, updatesFile>>

\* Both identifiers were tracked at "1.9" by an earlier run.
InitTwo ==
    /\ now = 0
    /\ enabled = FALSE
    /\ appsFile = [id \in Ids |-> Some(convertToAppInfo(id, "1.9", "n1", 0))]
    /\ firstTracked = [id \in Ids |-> Some(0)]
    /\ updatesFile = [id \in Ids |-> None]
    /\ ck = CkIdle
    /\ tr = TrIdle
    /\ chk = ChkNone
    /\ run = RunNone
    /\ mu = MuFree
    /\ th = [t \in Threads |-> ThIdle]
    /\ partial = {}
    /\ cks = [c \in Checkers |-> CkIdle]
    /\ rm = RmIdle
    /\ res = ResNone
    /\ InitExt

NextTwo ==
    \/ \E c \in Checkers : TwoStart(c)
    \/ \E c \in Checkers : TwoLookup(c)
    \/ \E c \in Checkers : TwoAppend(c)
    \/ \E c \in Checkers : TwoSaveNew(c)
    \/ \E c \in Checkers : TwoSaveSame(c)
    \/ \E c \in Checkers : TwoReturn(c)

\* Two callers running CheckForUpdates on one Tracker at the same time.
SpecTwo == InitTwo /\ [][NextTwo]_vars

\* ------------------------------------------------------------ properties
IsPrefix(s, t) == Len(s) <= Len(t) /\ SubSeq(t, 1, Len(s)) = s

\* The check of an item has returned after a successful lookup.
CheckedAfterLookup == chk.phase = "returned" /\ chk.fetched # None
\* The versions that check compared: the one of the item it was handed (the
\* stored record as listed by GetAllApps) and the one the lookup returned.
StoredVersion == chk.existing[1].version
FetchedVersion == chk.fetched[1].version
HistBefore == GetVersionUpdates(chk.updsBefore[1], chk.id)
HistAfter == GetVersionUpdates(chk.updsAfter[1], chk.id)
\* The check appended exactly one record, stored version -> fetched version,
\* to the history of its item as it was when the check began, and left every
\* other history alone.
AppendedOne ==
    /\ Len(HistAfter) = Len(HistBefore) + 1
    /\ IsPrefix(HistBefore, HistAfter)
    /\ HistAfter[Len(HistAfter)].oldVersion = StoredVersion
    /\ HistAfter[Len(HistAfter)].newVersion = FetchedVersion
    /\ HistAfter[Len(HistAfter)].updatedAt = chk.t
    /\ \A id \in Ids \ {chk.id} : chk.updsAfter[1][id] = chk.updsBefore[1][id]
\* The current-state record holds the fetched version when the check returns.
StateReplaced == chk.appAfter # None /\ chk.appAfter[1].version = FetchedVersion

\* C1 as claimed, for the checks that returned their update (SaveVersionUpdate
\* and SaveApp both returned nil): every check whose lookup succeeds and whose
\* fetched version differs from the stored one appends exactly one ChangeRecord
\* (old = stored, new = fetched) and replaces the current-state record so that
\* its version is the fetched one.
C1_AlwaysAppendsAndReplaces ==
    (CheckedAfterLookup /\ FetchedVersion # StoredVersion /\ chk.result = "changed")
        => (AppendedOne /\ StateReplaced)

\* C2 as claimed, for the checks whose SaveApp returned nil: every check whose
\* lookup succeeds with the stored version appends no ChangeRecord to any
\* history and leaves last_checked of the persisted record of its item at the
\* time of the check.
C2_NoChangeNoRecord ==
    (CheckedAfterLookup /\ FetchedVersion = StoredVersion)
        => /\ chk.result \in {"same", "saveErr"}
           /\ chk.updsAfter = chk.updsBefore
           /\ chk.result = "same" =>
                 (chk.appAfter # None /\ chk.appAfter[1].lastChecked = chk.t)

\* C3 as claimed: the history of every identifier only grows at its end: in
\* every step the history before is a prefix of the history after.
C3_HistoryAppendOnly ==
    [][\A id \in Ids : IsPrefix(GetVersionUpdates(updatesFile, id),
                                GetVersionUpdates(updatesFile', id))]_vars

\* Three successive changes 1.9 -> 2.0 -> 1.9 -> 2.0 of one identifier are three
\* records in that order.
ThreeChangesRecorded ==
    \E id \in Ids :
        LET h == GetVersionUpdates(updatesFile, id)
        IN  /\ Len(h) = 3
            /\ h[1].oldVersion = "1.9" /\ h[1].newVersion = "2.0"
            /\ h[2].oldVersion = "2.0" /\ h[2].newVersion = "1.9"
            /\ h[3].oldVersion = "1.9" /\ h[3].newVersion = "2.0"
            /\ h[1].updatedAt < h[2].updatedAt /\ h[2].updatedAt < h[3].updatedAt

\* C4 as claimed: first_discovered of every current-state record is the time
\* stamped by the first successful TrackApp of its identifier.
C4_FirstDiscoveredKept ==
    \A id \in Ids :
        LoadApp(appsFile, id) # None =>
            /\ firstTracked[id] # None
            /\ appsFile[id][1].firstDiscovered = firstTracked[id][1]

\* C5 as claimed: in every reachable state every persisted ChangeRecord has
\* old_version # new_version, and every check that observed differing versions
\* and whose append succeeded has a corresponding record: its record is the
\* last of the history when the check returns, and the records of the
\* history are still in it after every later successful append.
C5_RecordIffDiffers ==
    /\ [](\A id \in Ids :
            \A k \in 1..Len(GetVersionUpdates(updatesFile, id)) :
                GetVersionUpdates(updatesFile, id)[k].oldVersion
                    # GetVersionUpdates(updatesFile, id)[k].newVersion)
    /\ []((CheckedAfterLookup /\ FetchedVersion # StoredVersion
              /\ chk.result \in {"changed", "saveErr"})
             => /\ HistAfter # <<>>
                /\ HistAfter[Len(HistAfter)].oldVersion = StoredVersion
                /\ HistAfter[Len(HistAfter)].newVersion = FetchedVersion)
    /\ [][(ck.pc = "append" /\ ck'.pc = "saveNew")
            => \A k \in 1..Len(GetVersionUpdates(updatesFile, chk.id)) :
                  \E j \in 1..Len(GetVersionUpdates(updatesFile', chk.id)) :
                      GetVersionUpdates(updatesFile', chk.id)[j]
                          = GetVersionUpdates(updatesFile, chk.id)[k]]_vars

\* C6: no step of TrackApp changes the history of any identifier.
C6_TrackAppWritesNoHistory ==
    [][tr' # tr => updatesFile' = updatesFile]_vars

\* C6 witness: TrackApp has succeeded for an identifier that was stored with
\* another version than the fetched one.
C6_Witness ==
    /\ tr.pc = "done" /\ tr.ret = "ok"
    /\ tr.existing # None
    /\ tr.existing[1].version # tr.app[1].version
    /\ appsFile[tr.id] = tr.app

\* The updates returned by the checks of this invocation, in order.
RECURSIVE ReturnedUpdates(_)
ReturnedUpdates(outs) ==
    IF outs = <<>> THEN <<>>
    ELSE (IF Head(outs).update = None THEN <<>> ELSE Head(outs).update)
         \o ReturnedUpdates(Tail(outs))

\* C7: a CheckForUpdates whose listing succeeded has, when it returns, checked
\* every listed item whatever lookups failed, returns the updates of the items
\* whose check returned one, and returns no error.
C7_BatchIsolation ==
    (ck.pc = "done" /\ run.listOk)
        => /\ ck.ret[1].err = FALSE
           /\ [k \in 1..Len(run.outcomes) |-> run.outcomes[k].id] = run.listed
           /\ ck.ret[1].updates = ReturnedUpdates(run.outcomes)

\* C7 witness: the lookup of the first item failed and the change of the
\* second item is returned.
C7_Witness ==
    /\ ck.pc = "done" /\ run.listOk
    /\ Len(run.outcomes) = 2
    /\ run.outcomes[1].result = "lookupErr"
    /\ run.outcomes[2].result = "changed"
    /\ ck.ret[1].updates = run.outcomes[2].update
    /\ ck.ret[1].err = FALSE

\* The history of the identifier the returned update was written under, when
\* the check of the item returned.
ReturnedHist == GetVersionUpdates(chk.updsAfter[1], chk.fetched[1].bundleID)

C9_BatchIsWhatWasAppended ==
    (ck.pc = "done" /\ run.listOk) => ck.ret[1].updates = run.appended

\* C18 as claimed: a TrackApp or a check of an item in which a Storage read or
\* write failed with an I/O error returns an error.
C18_IOFailureReturnsError ==
    /\ tr.ioErr => (tr.pc = "done" /\ tr.ret = "error")
    /\ (chk.phase = "returned" /\ chk.readErr) => chk.result \in {"appendErr", "saveErr"}

\* The version of the stored record of id is another one after the step.
VersionMoved(id) ==
    /\ LoadApp(appsFile, id) # None /\ LoadApp(appsFile', id) # None
    /\ appsFile'[id][1].version # appsFile[id][1].version

\* C15 as claimed: the version of a tracked identifier changes only in the
\* SaveApp of a check that saw the fetched version differ from the stored one.
C15_VersionMovesOnlyByCheck ==
    [][\A id \in Ids :
          VersionMoved(id) =>
              /\ ck.pc = "saveNew" /\ ck'.pc # "saveNew" /\ chk.id = id
              /\ FetchedVersion # appsFile[id][1].version]_vars

\* C16: a TrackApp whose lookup returns an error returns an error at once, and
\* neither that step nor its return writes any apps file or updates file.
C16_FailedLookupWritesNothing ==
    /\ [][(tr.pc = "idle" /\ tr'.pc \notin {"idle", "panic"} /\ tr'.app = None)
              => /\ tr'.pc = "done" /\ tr'.ret = "error"
                 /\ appsFile' = appsFile /\ updatesFile' = updatesFile]_vars
    /\ [][(tr.pc = "done" /\ tr.app = None /\ tr' # tr)
              => /\ tr' = TrIdle
                 /\ appsFile' = appsFile /\ updatesFile' = updatesFile]_vars

\* C16 witness: the lookup of a TrackApp of a tracked identifier with history
\* has failed; the record and the history are still there.
C16_Witness ==
    /\ tr.pc = "done" /\ tr.ret = "error" /\ tr.app = None
    /\ LoadApp(appsFile, tr.id) # None /\ updatesFile[tr.id] # None

\* C20: CheckForUpdates hands at most one batch to the notifier, not before
\* every listed item has been checked, exactly when the batch is not empty and
\* the notifier is enabled, and the batch is the updates returned by the checks
\* in the order of the checks.
C20_NotifyOnceAfterLoop ==
    /\ Len(ck.sent) <= 1
    /\ ck.sent # <<>> =>
          /\ ck.pc = "done" /\ run.listOk
          /\ Len(run.outcomes) = Len(run.listed)
          /\ ck.sent[1] = ReturnedUpdates(run.outcomes)
          /\ ck.notify \in {"ok", "fail"}
    /\ (ck.pc = "done" /\ run.listOk) =>
          ((ck.sent # <<>>) <=> (ReturnedUpdates(run.outcomes) # <<>> /\ enabled))
    /\ (ck.pc = "done" /\ ~run.listOk) => ck.sent = <<>>

\* C20 witness: two items changed and the notifier got both updates in the
\* order of the checks.
C20_Witness ==
    /\ ck.pc = "done" /\ Len(ck.sent) = 1
    /\ Len(ck.sent[1]) = 2
    /\ ck.sent[1][1].bundleID = IdOrder[1] /\ ck.sent[1][2].bundleID = IdOrder[2]
    /\ ck.sent[1][1].updatedAt < ck.sent[1][2].updatedAt

\* The records of the history of LockId that goroutine t passed.
RecordsOf(t) ==
    {k \in 1..Len(GetVersionUpdates(updatesFile, LockId)) :
        GetVersionUpdates(updatesFile, LockId)[k].updatedAt = Tag(t)}

\* No Storage call has failed: none has returned an error and none is about to.
NoCallFailed == \A t \in Threads : ~th[t].failed /\ th[t].pc # "unlockErr"

\* C11 as claimed: under every interleaving of SaveVersionUpdate calls for one
\* identifier that all return nil, the history holds one record for every call
\* that has written (the calls that returned and the one about to return), and
\* every step leaves the records that were there in front.
C11_NoLostAppend ==
    /\ [](NoCallFailed =>
            \A t \in Threads :
                Cardinality(RecordsOf(t)) =
                    th[t].done + (IF th[t].op = "SaveVersionUpdate" /\ th[t].pc = "unlock"
                                  THEN 1 ELSE 0))
    /\ [][NoCallFailed' =>
             IsPrefix(GetVersionUpdates(updatesFile, LockId),
                      GetVersionUpdates(updatesFile', LockId))]_vars

\* C12 as claimed: with CheckForUpdates run by two callers at the same time
\* and one change "1.9" -> "2.0" of the catalog, the history of an identifier
\* holds at most one record "1.9" -> "2.0".
C12_OneRecordPerTransition ==
    \A id \in Ids :
        Cardinality({k \in 1..Len(GetVersionUpdates(updatesFile, id)) :
                        /\ GetVersionUpdates(updatesFile, id)[k].oldVersion = "1.9"
                        /\ GetVersionUpdates(updatesFile, id)[k].newVersion = "2.0"}) <= 1

\* C13 as claimed: when RemoveApp(id) has succeeded, LoadApp(id) finds no
\* record and the history of id is empty; and when the identifier had a record
\* and a history, the next TrackApp(id) (the clock advances by one per lookup:
\* the call whose lookup ran at rm.at + 1), once it has succeeded, has left a
\* record with its own time as first_discovered and an empty history.
C13_RemovedThenFresh ==
    /\ [][(rm.pc = "idle" /\ rm'.pc = "done" /\ rm'.ret = "ok")
              => /\ LoadApp(appsFile', rm'.id) = None
                 /\ GetVersionUpdates(updatesFile', rm'.id) = <<>>]_vars
    /\ []((tr.pc = "done" /\ tr.ret = "ok" /\ rm.ret = "ok" /\ rm.had
              /\ rm.id = tr.id /\ tr.t0 = rm.at + 1)
             => /\ LoadApp(appsFile, tr.id) # None
                /\ appsFile[tr.id][1].firstDiscovered = tr.t0
                /\ GetVersionUpdates(updatesFile, tr.id) = <<>>)

\* C14: while a removal holds the lock no other Storage method is inside the
\* lock, and no method ever reads a file of an identifier whose history is
\* deleted and whose record is not yet.
C14_RemovalAtomic ==
    /\ \A t \in Threads :
          RmHolds(t) => \A u \in Threads \ {t} : ~Holds(u) /\ ~RmHolds(u)
    /\ \A t \in Threads : ~th[t].sawRm

\* C14 witness: the removal has deleted the history and not yet the record
\* while LoadApp of the same identifier waits for the lock.
C14_Witness ==
    \E t, u \in Threads :
        /\ th[t].op = "RemoveApp" /\ th[t].pc = "rm2"
        /\ appsFile[LockId] # None /\ updatesFile[LockId] = None
        /\ th[u].op = "LoadApp" /\ th[u].pc = "lock"

\* C17 as claimed: LoadApp, GetAllApps, GetVersionUpdates and SaveVersionUpdate
\* return a decode error when a file they read is malformed (and could be
\* read), and SaveVersionUpdate leaves a malformed history as it is.
C17_CorruptSurfacesDecodeError ==
    /\ (res.op = "LoadApp" /\ res.before = Some(BadApp) /\ ~res.io)
          => res.err = "decode"
    /\ (res.op = "GetVersionUpdates" /\ res.before = Some(BadUpdates) /\ ~res.io)
          => res.err = "decode"
    /\ (res.op = "GetAllApps" /\ ~res.io /\ \E id \in Ids : appsFile[id] = Some(BadApp))
          => res.err = "decode"
    /\ (res.op = "SaveVersionUpdate" /\ res.before = Some(BadUpdates) /\ ~res.io)
          => (res.err = "decode" /\ updatesFile[res.id] = Some(BadUpdates))

\* C19 as claimed: LoadApp of an identifier without file returns (nil, nil),
\* GetAllApps on a store without files returns an empty list and no error,
\* GetVersionUpdates of an identifier without updates file returns an empty
\* list and no error, tracked or not.
C19_AbsenceNeverAnError ==
    /\ (res.op = "LoadApp" /\ res.before = None)
          => (res.err = "none" /\ res.val = None)
    /\ (res.op = "GetAllApps" /\ \A id \in Ids : appsFile[id] = None)
          => (res.err = "none" /\ res.val = <<>>)
    /\ (res.op = "GetVersionUpdates" /\ res.before = None)
          => (res.err = "none" /\ res.val = <<>>)

\* C19 amended: the same, for the reads in which os.ReadFile or os.ReadDir did
\* not fail with an error other than not-exist; such a failure is returned as
\* an error whether the file exists or not.
C19_AbsenceIsNotAnError ==
    /\ (res.op = "LoadApp" /\ res.before = None)
          => /\ ~res.io => (res.err = "none" /\ res.val = None)
             /\ res.io => res.err = "io"
    /\ (res.op = "GetAllApps" /\ \A id \in Ids : appsFile[id] = None)
          => /\ ~res.io => (res.err = "none" /\ res.val = <<>>)
             /\ res.io => res.err = "io"
    /\ (res.op = "GetVersionUpdates" /\ res.before = None)
          => /\ ~res.io => (res.err = "none" /\ res.val = <<>>)
             /\ res.io => res.err = "io"

\* C19 witness: GetVersionUpdates of a tracked identifier without updates file
\* has returned the empty list and no error.
C19_Witness ==
    /\ res.op = "GetVersionUpdates" /\ res.before = None
    /\ appsFile[res.id] # None /\ appsFile[res.id] # Some(BadApp)
    /\ res.err = "none" /\ res.val = <<>>

\* C10 as claimed: while SaveApp or SaveVersionUpdate holds the mutex no other Storage
\* method holds it, and no method ever reads a file that is truncated and not
\* written.
C10_WritersExclusive ==
    /\ \A t \in Threads :
          (Holds(t) /\ LockMode(th[t].op) = "W") =>
              \A u \in Threads \ {t} : ~Holds(u)
    /\ \A t \in Threads : ~th[t].saw

\* Two readers hold the mutex at the same time.
C10_ReadersOverlap ==
    \E t, u \in Threads :
        t # u /\ Holds(t) /\ Holds(u) /\ LockMode(th[t].op) = "R" /\ LockMode(th[u].op) = "R"

\* C22 as claimed: the history of every identifier chains, the old version of
\* each record being the new version of the record before it.
C22_HistoryChains ==
    \A id \in Ids :
        \A k \in 1..(Len(GetVersionUpdates(updatesFile, id)) - 1) :
            GetVersionUpdates(updatesFile, id)[k + 1].oldVersion
                = GetVersionUpdates(updatesFile, id)[k].newVersion

\* C26: within one CheckForUpdates at most one item is being checked: while the
\* check of the item at position i of the listing is between its lookup and its
\* return, the checks of all the items before it have returned, in the order of
\* the listing, and no other check has started; between two checks none is in
\* progress.
C26_ChecksSequential ==
    (run.listOk /\ ck.pc \in {"lookup", "append", "saveNew", "saveSame"})
        => /\ Len(run.outcomes) = ck.i - 1
           /\ \A k \in 1..Len(run.outcomes) : run.outcomes[k].id = run.listed[k]
           /\ ck.pc = "lookup" => chk.phase \in {"none", "returned"}
           /\ ck.pc # "lookup" =>
                 /\ chk.phase = "running"
                 /\ ck.i <= Len(run.listed)
                 /\ chk.id = run.listed[ck.i]

\* C26 witness: the check of the second listed item is between its
\* SaveVersionUpdate and its SaveApp, and the check of the first has returned.
C26_Witness ==
    /\ run.listOk /\ ck.pc = "saveNew" /\ ck.i = 2
    /\ Len(run.outcomes) = 1
    /\ run.outcomes[1].id = IdOrder[1]
    /\ chk.phase = "running" /\ chk.id = IdOrder[2]

\* ------------------------------------------ CheckForUpdates runs to its end
\* CheckForUpdates called when the clock leaves room for a lookup of every
\* identifier, so that the bound on the clock stops no check under way.
TermStart ==
    /\ now + Len(IdOrder) <= MaxTime
    /\ CheckStart

\* The release notes of the records an earlier run stored: those the catalog
\* has now, or older ones.
StoredNotes == {"n0"} \cup Notes

\* The data directory an earlier run left: every identifier is untracked or
\* tracked at some version, with the release notes of that time.
InitTerm ==
    /\ now = 0
    /\ enabled \in BOOLEAN
    /\ \E vs \in [Ids -> Versions \cup {"-"}], n \in StoredNotes :
          appsFile = [id \in Ids |-> IF vs[id] = "-" THEN None
                                     ELSE Some(convertToAppInfo(id, vs[id], n, 0))]
    /\ firstTracked = [id \in Ids |-> IF appsFile[id] = None THEN None ELSE Some(0)]
    /\ updatesFile = [id \in Ids |-> None]
    /\ ck = CkIdle
    /\ tr = TrIdle
    /\ chk = ChkNone
    /\ run = RunNone
    /\ mu = MuFree
    /\ th = [t \in Threads |-> ThIdle]
    /\ partial = {}
    /\ cks = [c \in Checkers |-> CkIdle]
    /\ rm = RmIdle
    /\ res = ResNone
    /\ InitExt

\* checkSingleApp, line 110, with a lookup that returns: an application or an
\* error (a lookup that panics does not return).
TermLookup ==
    /\ CheckLookup
    /\ ck'.pc # "panic"

NextTerm ==
    \/ TermStart
    \/ TermLookup
    \/ CheckAppend
    \/ CheckSaveNew
    \/ CheckSaveSame
    \/ CheckFinish
    \/ CheckReturn

\* CheckForUpdates is straight-line code around one loop: once called, each of
\* its steps is taken when the call before it has returned, and the lookups,
\* the Storage calls and the notifier call all return.
SpecTerm ==
    /\ InitTerm /\ [][NextTerm]_vars
    /\ WF_vars(TermLookup) /\ WF_vars(CheckAppend) /\ WF_vars(CheckSaveNew)
    /\ WF_vars(CheckSaveSame) /\ WF_vars(CheckFinish)

\* C27: a CheckForUpdates whose listing succeeded attempts the listed items in
\* order, each once (the checks that have returned are those of a prefix of the
\* listing), has attempted all of them when it returns, whatever failed, and
\* does return.
C27_EveryCheckTerminates ==
    /\ [](run.listOk =>
            /\ Len(run.outcomes) <= Len(run.listed)
            /\ \A k \in 1..Len(run.outcomes) : run.outcomes[k].id = run.listed[k])
    /\ []((ck.pc = "done" /\ run.listOk) => Len(run.outcomes) = Len(run.listed))
    /\ (ck.pc # "idle") ~> (ck.pc = "done")

\* C27 witness: the SaveApp of the first item failed, the lookup of the second
\* failed, and CheckForUpdates has returned after these two attempts.
C27_Witness ==
    /\ ck.pc = "done" /\ run.listOk
    /\ Len(run.listed) = 2 /\ Len(run.outcomes) = 2
    /\ run.outcomes[1].result = "saveErr"
    /\ run.outcomes[2].result = "lookupErr"

\* The persisted record has the fetched catalog fields and the first_discovered
\* of the item the check was handed.
MetadataRefreshed ==
    /\ chk.appAfter # None
    /\ chk.appAfter[1].bundleID = chk.fetched[1].bundleID
    /\ chk.appAfter[1].version = chk.fetched[1].version
    /\ chk.appAfter[1].notes = chk.fetched[1].notes
    /\ chk.appAfter[1].firstDiscovered = chk.existing[1].firstDiscovered
    /\ chk.appAfter[1].lastChecked = chk.t

\* C28 as claimed, for the checks whose SaveApp returned nil or failed: after a
\* check whose lookup succeeds with the stored version no ChangeRecord was
\* written, and if its SaveApp succeeded the persisted record of its item has
\* the fetched catalog fields and the stored first_discovered; if its SaveApp
\* failed the stored record is as it was, cut short, or refreshed all the same.
C28_MetadataRefreshedOnSave ==
    (CheckedAfterLookup /\ FetchedVersion = StoredVersion)
        => /\ chk.result \in {"same", "saveErr"}
           /\ chk.updsAfter = chk.updsBefore
           /\ chk.result = "same" => MetadataRefreshed
           /\ chk.result = "saveErr" =>
                 (chk.appAfter \in {chk.existing, Some(BadApp)} \/ MetadataRefreshed)

\* C29 as claimed: from one write of the record of an identifier to the next,
\* its last_checked never decreases.
C29_LastCheckedMonotonic ==
    [][\A id \in Ids :
          (LoadApp(appsFile, id) # None /\ LoadApp(appsFile', id) # None)
              => appsFile'[id][1].lastChecked >= appsFile[id][1].lastChecked]_vars

\* ------------------------------------------------- TrackApp called repeatedly
\* TrackApp(id), lines 48-51, while the catalog stays as it is: a lookup fails
\* or returns the snapshot of the catalog.  Once a TrackApp has succeeded, the
\* calls that follow are for the same identifier.
IdemLookup(id) ==
    /\ snap.apps # None => id = snap.id
    /\ TrackLookup(id)
    /\ tr'.app # None => tr'.app \in {r.app : r \in LookupNow(id, now + 1)}

\* The first TrackApp that succeeded has returned: the history variable snap
\* takes the data directory as it is now.
IdemMark ==
    /\ tr.pc = "done" /\ tr.ret = "ok"
    /\ snap.apps = None
    /\ snap' = [id |-> tr.id, apps |-> Some(appsFile), upds |-> Some(updatesFile)]
    /\ UNCHANGED <<now, enabled, appsFile, updatesFile, ck, tr, firstTracked, chk, run,
                   lockVars, cks, rm, res, dm, fn>>

\* The caller takes the result of TrackApp.
IdemReturn ==
    /\ tr.ret = "ok" => snap.apps # None
    /\ TrackReturn

\* The data directory an earlier run left: every identifier is untracked or
\* tracked at some version; the first identifier may have a history.
InitIdem ==
    /\ now = 0
    /\ enabled = FALSE
    /\ \E vs \in [Ids -> Versions \cup {"-"}], n \in StoredNotes :
          appsFile = [id \in Ids |-> IF vs[id] = "-" THEN None
                                     ELSE Some(convertToAppInfo(id, vs[id], n, 0))]
    /\ firstTracked = [id \in Ids |-> IF appsFile[id] = None THEN None ELSE Some(0)]
    /\ updatesFile \in {[id \in Ids |-> None],
                        SaveVersionUpdate([id \in Ids |-> None], EarlierUpdate)}
    /\ ck = CkIdle
    /\ tr = TrIdle
    /\ chk = ChkNone
    /\ run = RunNone
    /\ mu = MuFree
    /\ th = [t \in Threads |-> ThIdle]
    /\ partial = {}
    /\ cks = [c \in Checkers |-> CkIdle]
    /\ rm = RmIdle
    /\ res = ResNone
    /\ InitExt

NextIdem ==
    \/ \E id \in Ids : IdemLookup(id)
    \/ TrackLoad
    \/ TrackSave
    \/ IdemMark
    \/ IdemReturn

\* TrackApp called again and again, one call at a time, with an unchanged catalog.
SpecIdem == InitIdem /\ [][NextIdem]_vars

\* The record of snap.id as the first successful TrackApp left it.
SnapApp == snap.apps[1][snap.id][1]

\* C30 as claimed: once a TrackApp(id) has succeeded, further calls of TrackApp(id) with
\* the catalog unchanged, whether they succeed or fail, leave every apps file
\* and every updates file as the first call left them, except last_checked of
\* the record of id; its first_discovered and its history are the same.
C30_TrackAppIdempotent ==
    snap.apps # None =>
        /\ updatesFile = snap.upds[1]
        /\ LoadApp(appsFile, snap.id) # None
        /\ appsFile = [snap.apps[1] EXCEPT ![snap.id] =
                          Some([SnapApp EXCEPT !.lastChecked =
                                                  appsFile[snap.id][1].lastChecked])]
        /\ appsFile[snap.id][1].firstDiscovered = SnapApp.firstDiscovered
        /\ appsFile[snap.id][1].lastChecked >= SnapApp.lastChecked

\* --------------------------------------------------------------- SearchApps
\* The largest limit a request asks for and the largest number of results a
\* response of the catalog holds.
MaxRequested == 52
MaxResults == 52

\* SearchApps, lines 116-118 and 119-121.
DefaultLimit == 10
HardLimit == 50
\* handleSearch: the limit when the query has no usable limit parameter.
HandlerLimit == 10

\* The limit parameter of GET /api/search: missing, not a number, or a number.
LimitParams ==
    {[kind |-> "missing", val |-> 0], [kind |-> "text", val |-> 0]}
    \cup {[kind |-> "int", val |-> l] : l \in -1..MaxRequested}

\* handleSearch: limit is 10 unless the parameter is there and strconv.Atoi
\* accepts it.
ParseLimit(p) == IF p.kind = "int" THEN p.val ELSE HandlerLimit

\* SearchApps, lines 116-121: the limit put into the request to the catalog.
EffectiveLimit(limit) ==
    IF limit <= 0 THEN DefaultLimit
    ELSE IF limit > HardLimit THEN HardLimit
    ELSE limit

\* SearchApps, lines 129-152: what the catalog answers: a failure (transport
\* error, status other than 200, undecodable body) or a body with n results of
\* which bad cannot be converted.  Nothing in SearchApps relates n to the limit
\* it sent.
SearchResponses ==
    {[err |-> TRUE, n |-> 0, bad |-> 0]}
    \cup {[err |-> FALSE, n |-> n, bad |-> b] : n \in 0..MaxResults, b \in 0..1}

\* SearchApps, lines 146-154: the results that convert are returned, all of them.
SearchResult(resp) ==
    IF resp.err THEN [err |-> TRUE, count |-> 0]
    ELSE [err |-> FALSE, count |-> IF resp.bad <= resp.n THEN resp.n - resp.bad ELSE 0]

\* handleSearch calls SearchApps, which sends its request to the catalog.
SearchSend ==
    /\ fn.pc = "idle"
    /\ \E p \in LimitParams :
          fn' = [FnNone EXCEPT !.op = "SearchApps", !.pc = "sent", !.arg = <<p>>,
                               !.sent = <<EffectiveLimit(ParseLimit(p))>>]
    /\ UNCHANGED <<now, enabled, appsFile, updatesFile, ck, tr, firstTracked, chk, run,
                   lockVars, cks, rm, res, snap, dm>>

\* The catalog answers and SearchApps returns.
SearchReceive ==
    /\ fn.pc = "sent" /\ fn.op = "SearchApps"
    /\ \E resp \in SearchResponses :
          fn' = [fn EXCEPT !.pc = "done", !.out = <<SearchResult(resp)>>]
    /\ UNCHANGED <<now, enabled, appsFile, updatesFile, ck, tr, firstTracked, chk, run,
                   lockVars, cks, rm, res, snap, dm>>

\* handleSearch has written its response.
SearchDone ==
    /\ fn.pc = "done" /\ fn.op = "SearchApps"
    /\ fn' = FnNone
    /\ UNCHANGED <<now, enabled, appsFile, updatesFile, ck, tr, firstTracked, chk, run,
                   lockVars, cks, rm, res, snap, dm>>

InitSearch ==
    /\ now = 0
    /\ enabled = FALSE
    /\ appsFile = [id \in Ids |-> None]
    /\ firstTracked = [id \in Ids |-> None]
    /\ updatesFile = [id \in Ids |-> None]
    /\ ck = CkIdle
    /\ tr = TrIdle
    /\ chk = ChkNone
    /\ run = RunNone
    /\ mu = MuFree
    /\ th = [t \in Threads |-> ThIdle]
    /\ partial = {}
    /\ cks = [c \in Checkers |-> CkIdle]
    /\ rm = RmIdle
    /\ res = ResNone
    /\ InitExt

NextSearch ==
    \/ SearchSend
    \/ SearchReceive
    \/ SearchDone

\* GET /api/search requests, one at a time.
SpecSearch == InitSearch /\ [][NextSearch]_vars

\* C23 as claimed: a search sends the limit 10 when the requested limit is
\* missing or not positive and min(limit, 50) otherwise, and returns no more
\* results than the limit it sent.
C23_SearchClamped ==
    (fn.op = "SearchApps" /\ fn.pc = "done" /\ ~fn.out[1].err)
        => /\ fn.sent[1] = (IF fn.arg[1].kind # "int" \/ fn.arg[1].val <= 0 THEN 10
                            ELSE IF fn.arg[1].val < 50 THEN fn.arg[1].val ELSE 50)
           /\ fn.out[1].count <= fn.sent[1]

\* ------------------------------------------------------------ NotifyUpdates
\* The largest batch handed to NotifyUpdates.
MaxBatch == 12

\* NotifyUpdates, line 81: the index of the last update listed and the batch
\* size above which the list is cut.
LastListed == 9
ListedMax == 10

\* The batches: n updates of the identifiers in turn, in the order of their
\* timestamps, starting with either identifier and either version.
Batch(n, s, d) ==
    [k \in 1..n |->
        VersionUpdate(IdOrder[1 + ((k + s) % 2)],
                      IF (k + d) % 2 = 0 THEN "1.9" ELSE "2.0",
                      IF (k + d) % 2 = 0 THEN "2.0" ELSE "1.9",
                      k, "n1")]

\* NotifyUpdate, line 52: the number of bytes of the release notes above which
\* they are cut.
NotesMax == 500

\* Release notes of exactly NotesMax bytes.
Tenfold(s) == s \o s \o s \o s \o s \o s \o s \o s \o s \o s
FullNotes == Tenfold(Tenfold("notes"))

\* The release notes of an update handed to the notifier: none, short ones,
\* notes of NotesMax bytes and notes one byte longer.
BatchNotes == {"", "n1", FullNotes, FullNotes \o "!"}

\* The batches of every size, and the batches of one update with each kind of
\* release notes.
Batches ==
    {Batch(n, s, d) : n \in 0..MaxBatch, s \in 0..1, d \in 0..1}
    \cup {<<VersionUpdate(IdOrder[1], "1.9", "2.0", 1, notes)>> : notes \in BatchNotes}

\* NotifyUpdate, lines 49-56: the release notes part of the body: none if the
\* update has no release notes; notes of more than NotesMax bytes are cut to
\* their first NotesMax bytes followed by "...".
NotesPart(notes) ==
    IF notes = "" THEN None
    ELSE IF Len(notes) > NotesMax THEN Some(SubSeq(notes, 1, NotesMax) \o "...")
    ELSE Some(notes)

\* NotifyUpdates, lines 76-77: the line of one update, "• name: old → new".
BodyLine(update) ==
    [name |-> update.bundleID, old |-> update.oldVersion, new |-> update.newVersion]

\* NotifyUpdate, lines 45-58: title, version line and release notes of one update.
SingleNotification(update) ==
    [type |-> "info", count |-> 1, lines |-> <<BodyLine(update)>>, more |-> None,
     notes |-> NotesPart(update.notes)]

\* A loop that cuts the list after ten lines whatever the size of the batch.
CutHere_AtTen(i, n) == i >= LastListed

\* NotifyUpdates, line 81: the list is cut behind the update at index i.
CutHere(i, n) == i >= LastListed /\ n > ListedMax

\* NotifyUpdates, lines 72-86: the loop over the batch from index i (counted
\* from 0) on: the lines written and the "... and %d more" line, if any.
RECURSIVE BodyFrom(_, _)
BodyFrom(updates, i) ==
    IF i >= Len(updates) THEN [lines |-> <<>>, more |-> None]
    ELSE IF CutHere(i, Len(updates))
         THEN [lines |-> <<BodyLine(updates[i + 1])>>,
               more |-> Some(Len(updates) - ListedMax)]
         ELSE LET rest == BodyFrom(updates, i + 1)
              IN  [lines |-> <<BodyLine(updates[i + 1])>> \o rest.lines,
                   more |-> rest.more]

\* NotifyUpdates: the notifications handed to sendNotification.
NotifyUpdates(updates, en) ==
    IF ~en \/ Len(updates) = 0 THEN <<>>
    ELSE IF Len(updates) = 1 THEN <<SingleNotification(updates[1])>>
    ELSE <<[type |-> "success", count |-> Len(updates),
            lines |-> BodyFrom(updates, 0).lines,
            more |-> BodyFrom(updates, 0).more,
            notes |-> None]>>

\* NotifyUpdates is called with a batch.
NotifyCall ==
    /\ fn.pc = "idle"
    /\ \E b \in Batches :
          fn' = [FnNone EXCEPT !.op = "NotifyUpdates", !.pc = "called", !.arg = b]
    /\ UNCHANGED <<now, enabled, appsFile, updatesFile, ck, tr, firstTracked, chk, run,
                   lockVars, cks, rm, res, snap, dm>>

\* NotifyUpdates builds its notification and sendNotification posts it; the
\* post succeeds or fails.
NotifySend ==
    /\ fn.pc = "called" /\ fn.op = "NotifyUpdates"
    /\ \E outcome \in (IF NotifyUpdates(fn.arg, enabled) = <<>> THEN {"none"}
                       ELSE {"ok", "fail"}) :
          fn' = [fn EXCEPT !.pc = "done", !.sent = NotifyUpdates(fn.arg, enabled),
                           !.out = <<outcome>>]
    /\ UNCHANGED <<now, enabled, appsFile, updatesFile, ck, tr, firstTracked, chk, run,
                   lockVars, cks, rm, res, snap, dm>>

\* The caller takes the result.
NotifyDone ==
    /\ fn.pc = "done" /\ fn.op = "NotifyUpdates"
    /\ fn' = FnNone
    /\ UNCHANGED <<now, enabled, appsFile, updatesFile, ck, tr, firstTracked, chk, run,
                   lockVars, cks, rm, res, snap, dm>>

\* NewNotifier: notifications are enabled if an Apprise URL is configured.
InitNotify ==
    /\ now = 0
    /\ enabled \in BOOLEAN
    /\ appsFile = [id \in Ids |-> None]
    /\ firstTracked = [id \in Ids |-> None]
    /\ updatesFile = [id \in Ids |-> None]
    /\ ck = CkIdle
    /\ tr = TrIdle
    /\ chk = ChkNone
    /\ run = RunNone
    /\ mu = MuFree
    /\ th = [t \in Threads |-> ThIdle]
    /\ partial = {}
    /\ cks = [c \in Checkers |-> CkIdle]
    /\ rm = RmIdle
    /\ res = ResNone
    /\ InitExt

NextNotify ==
    \/ NotifyCall
    \/ NotifySend
    \/ NotifyDone

\* NotifyUpdates called with batches of every size, one call at a time.
SpecNotify == InitNotify /\ [][NextNotify]_vars

\* C24: with notifications enabled NotifyUpdates sends nothing for an empty
\* batch, the notification of NotifyUpdate for a batch of one (the version line,
\* and behind it the release notes if there are any, cut to 500 bytes and "..."
\* if they are longer), and for a batch
\* of n >= 2 one notification that lists the first min(n, 10) updates in the
\* order of the batch and ends with "... and n-10 more" exactly if n > 10;
\* with notifications disabled it sends nothing.
C24_BatchFormat ==
    (fn.op = "NotifyUpdates" /\ fn.pc = "done") =>
        LET n == Len(fn.arg)
            shown == IF n < 10 THEN n ELSE 10
        IN  /\ ~enabled => fn.sent = <<>>
            /\ (enabled /\ n = 0) => fn.sent = <<>>
            /\ (enabled /\ n = 1) =>
                  /\ Len(fn.sent) = 1
                  /\ fn.sent[1].type = "info"
                  /\ fn.sent[1].lines = <<BodyLine(fn.arg[1])>>
                  /\ fn.arg[1].notes = "" => fn.sent[1].notes = None
                  /\ (fn.arg[1].notes # "" /\ Len(fn.arg[1].notes) <= 500)
                        => fn.sent[1].notes = Some(fn.arg[1].notes)
                  /\ Len(fn.arg[1].notes) > 500
                        => /\ fn.sent[1].notes # None
                           /\ Len(fn.sent[1].notes[1]) = 503
                           /\ SubSeq(fn.sent[1].notes[1], 1, 500)
                                 = SubSeq(fn.arg[1].notes, 1, 500)
                           /\ SubSeq(fn.sent[1].notes[1], 501, 503) = "..."
                  /\ fn.sent[1].more = None
            /\ (enabled /\ n >= 2) =>
                  /\ Len(fn.sent) = 1
                  /\ fn.sent[1].type = "success"
                  /\ fn.sent[1].count = n
                  /\ fn.sent[1].lines = [k \in 1..shown |-> BodyLine(fn.arg[k])]
                  /\ (fn.sent[1].more # None) <=> (n > 10)
                  /\ n > 10 => fn.sent[1].more = Some(n - 10)

\* C24 witness: a batch of twelve updates was sent as one notification of ten
\* lines that ends with "... and 2 more".
C24_Witness ==
    /\ fn.op = "NotifyUpdates" /\ fn.pc = "done" /\ enabled
    /\ Len(fn.arg) = 12
    /\ Len(fn.sent) = 1 /\ Len(fn.sent[1].lines) = 10
    /\ fn.sent[1].lines[10] = BodyLine(fn.arg[10])
    /\ fn.sent[1].more = Some(2)

\* ----------------------------------------------------------------- main
\* The variables main and handleDaemon leave alone.
mainVars == <<lockVars, cks, rm, res, snap, fn>>

\* The values of MAVT_APPS after parseAppsList.
AppsLists == {<<>>, <<IdOrder[1]>>, IdOrder}

\* main, lines 67-94: the switch on the flags.  With -daemon it calls
\* handleDaemon, which sets up the context, the signal handler and the HTTP
\* server and calls handleCheckNow (lines 189-212); without a flag it goes
\* through cfg.Apps first.
MainDispatch ==
    /\ dm.pc = "start"
    /\ dm' = IF dm.mode = "daemon"
             THEN [dm EXCEPT !.pc = "check", !.first = TRUE]
             ELSE [dm EXCEPT !.pc = "enroll"]
    /\ UNCHANGED <<mainVars, now, enabled, appsFile, updatesFile, ck, tr, firstTracked, chk,
                   run>>

\* main, lines 84-88: TrackApp of the next identifier of cfg.Apps.
MainTrack ==
    /\ dm.pc = "enroll"
    /\ dm.k <= Len(dm.apps)
    /\ TrackLookup(dm.apps[dm.k])

\* main, lines 85-87: TrackApp has returned; an error is logged and the loop
\* goes on.
MainTracked ==
    /\ dm.pc = "enroll"
    /\ tr.pc = "done"
    /\ tr' = TrIdle
    /\ dm' = [dm EXCEPT !.k = dm.k + 1, !.enrolled = dm.enrolled \cup {tr.id}]
    /\ UNCHANGED <<mainVars, now, enabled, appsFile, updatesFile, ck, firstTracked, chk, run>>

\* main, line 93: after the loop, handleCheckNow.
MainEnrolled ==
    /\ dm.pc = "enroll"
    /\ tr.pc = "idle"
    /\ dm.k > Len(dm.apps)
    /\ dm' = [dm EXCEPT !.pc = "check", !.first = TRUE]
    /\ UNCHANGED <<mainVars, now, enabled, appsFile, updatesFile, ck, tr, firstTracked, chk,
                   run>>

\* handleCheckNow, line 174: CheckForUpdates is called.
MainCheckStart ==
    /\ dm.pc = "check"
    /\ CheckStart

\* handleCheckNow, lines 174-186: CheckForUpdates has returned.  An error ends
\* the process (log.Fatalf); otherwise the one-shot run is over, and the daemon
\* starts its ticker after the first check and goes (back) to its select.
MainChecked ==
    /\ dm.pc = "check"
    /\ ck.pc = "done"
    /\ ck' = CkIdle
    /\ chk' = ChkNone
    /\ run' = RunNone
    /\ dm' = IF ck.ret[1].err THEN [dm EXCEPT !.pc = "fatal"]
             ELSE IF dm.mode = "daemon" THEN [dm EXCEPT !.pc = "select", !.ticker = TRUE]
             ELSE [dm EXCEPT !.pc = "exited"]
    /\ UNCHANGED <<mainVars, now, enabled, appsFile, updatesFile, tr, firstTracked>>

\* A lookup panicked inside main's TrackApp (line 86) or inside
\* CheckForUpdates (line 174); nothing recovers it and the process ends.
MainPanic ==
    /\ \/ dm.pc = "enroll" /\ tr.pc = "panic"
       \/ dm.pc = "check" /\ ck.pc = "panic"
    /\ dm' = [dm EXCEPT !.pc = "crashed", !.ticker = FALSE, !.tick = FALSE]
    /\ ck' = CkIdle
    /\ tr' = TrIdle
    /\ UNCHANGED <<mainVars, now, enabled, appsFile, updatesFile, firstTracked, chk, run>>

\* handleDaemon, lines 196-197: SIGINT or SIGTERM arrives and is put into
\* sigChan (one place; further signals are dropped).
DaemonSignal ==
    /\ dm.mode = "daemon"
    /\ dm.pc \in {"check", "select"}
    /\ ~dm.sig /\ ~dm.cancelled
    /\ dm' = [dm EXCEPT !.sig = TRUE]
    /\ UNCHANGED <<mainVars, now, enabled, appsFile, updatesFile, ck, tr, firstTracked, chk,
                   run>>

\* handleDaemon, lines 199-203: the goroutine takes the signal and calls cancel().
DaemonCancel ==
    /\ dm.sig
    /\ dm.pc \in {"check", "select"}
    /\ dm' = [dm EXCEPT !.sig = FALSE, !.cancelled = TRUE]
    /\ UNCHANGED <<mainVars, now, enabled, appsFile, updatesFile, ck, tr, firstTracked, chk,
                   run>>

\* time.Ticker: the interval has passed; the tick is put into ticker.C if it
\* is empty (the channel has one place).
DaemonTick ==
    /\ dm.ticker
    /\ dm.pc \in {"check", "select"}
    /\ ~dm.tick
    /\ dm' = [dm EXCEPT !.tick = TRUE]
    /\ UNCHANGED <<mainVars, now, enabled, appsFile, updatesFile, ck, tr, firstTracked, chk,
                   run>>

\* handleDaemon, lines 221-224: the select takes the case <-ctx.Done().
DaemonSelectDone ==
    /\ dm.pc = "select"
    /\ dm.cancelled
    /\ dm' = [dm EXCEPT !.pc = "exited", !.ticker = FALSE, !.tick = FALSE]
    /\ UNCHANGED <<mainVars, now, enabled, appsFile, updatesFile, ck, tr, firstTracked, chk,
                   run>>

\* A ticker case that runs in a goroutine of its own: the tick is taken while
\* handleCheckNow is still running.
DaemonSelectTick_Async ==
    /\ dm.pc \in {"check", "select"}
    /\ dm.tick
    /\ now + Len(IdOrder) <= MaxTime
    /\ dm' = [dm EXCEPT !.pc = "check", !.tick = FALSE]
    /\ UNCHANGED <<mainVars, now, enabled, appsFile, updatesFile, ck, tr, firstTracked, chk,
                   run>>

\* handleDaemon, lines 225-226: the select takes the case <-ticker.C and calls
\* handleCheckNow.  When both cases are ready the select takes either.  (No
\* tick is taken when the clock has no room left for the lookups of a check.)
DaemonSelectTick ==
    /\ dm.pc = "select"
    /\ dm.tick
    /\ now + Len(IdOrder) <= MaxTime
    /\ dm' = [dm EXCEPT !.pc = "check", !.tick = FALSE]
    /\ UNCHANGED <<mainVars, now, enabled, appsFile, updatesFile, ck, tr, firstTracked, chk,
                   run>>

\* The process starts with -daemon or without a flag, with some MAVT_APPS, on
\* the data directory an earlier run left.
InitMain ==
    /\ now = 0
    /\ enabled \in BOOLEAN
    /\ \E st \in InitStores : appsFile = st.apps /\ firstTracked = st.first
    /\ updatesFile = [id \in Ids |-> None]
    /\ ck = CkIdle
    /\ tr = TrIdle
    /\ chk = ChkNone
    /\ run = RunNone
    /\ mu = MuFree
    /\ th = [t \in Threads |-> ThIdle]
    /\ partial = {}
    /\ cks = [c \in Checkers |-> CkIdle]
    /\ rm = RmIdle
    /\ res = ResNone
    /\ snap = SnapNone
    /\ fn = FnNone
    /\ \E m \in {"daemon", "default"}, l \in AppsLists :
          dm = [DmIdle EXCEPT !.pc = "start", !.mode = m, !.apps = l]

NextMain ==
    \/ MainDispatch
    \/ MainTrack
    \/ TrackLoad
    \/ TrackSave
    \/ MainTracked
    \/ MainEnrolled
    \/ MainCheckStart
    \/ CheckLookup
    \/ CheckAppend
    \/ CheckSaveNew
    \/ CheckSaveSame
    \/ CheckFinish
    \/ MainChecked
    \/ MainPanic
    \/ DaemonSignal
    \/ DaemonCancel
    \/ DaemonTick
    \/ DaemonSelectDone
    \/ DaemonSelectTick

\* The process in daemon mode and in the default one-shot mode.
SpecMain == InitMain /\ [][NextMain]_vars

\* C21 as claimed: once cancel() has been called, the check in progress is not
\* cut off between its SaveVersionUpdate and its SaveApp, and no check is
\* started any more, whether or not a tick is waiting.
C21_NoCheckAfterCancel ==
    /\ [][(dm.cancelled /\ ck.pc \in {"append", "saveNew"})
             => dm'.pc \notin {"exited", "fatal"}]_vars
    /\ [][dm.cancelled => ~(dm.pc # "check" /\ dm'.pc = "check")]_vars

\* C25 as claimed: when the first check is called, TrackApp has been called for
\* every identifier of MAVT_APPS, in daemon mode as in the default mode.
C25_AppsEnrolledBeforeFirstCheck ==
    dm.first => \A k \in 1..Len(dm.apps) : dm.apps[k] \in dm.enrolled

\* C31 as claimed: a check of an item that returned an error has changed
\* neither the history of the item nor its stored record.
C31_ErrorChangesNothing ==
    (chk.phase = "returned" /\ chk.result \in {"lookupErr", "appendErr", "saveErr"})
        => /\ chk.updsAfter = chk.updsBefore
           /\ chk.appAfter = chk.existing

\* C32 as claimed: whenever no TrackApp and no CheckForUpdates is under way, an
\* identifier with a record and a history has the version of its record as the
\* new version of the last entry of its history.
C32_LastEntryIsCurrent ==
    (tr.pc = "idle" /\ ck.pc = "idle") =>
        \A id \in Ids :
            (LoadApp(appsFile, id) # None /\ GetVersionUpdates(updatesFile, id) # <<>>)
                => GetVersionUpdates(updatesFile, id)
                       [Len(GetVersionUpdates(updatesFile, id))].newVersion
                   = appsFile[id][1].version

\* C38 as claimed: the daemon is never ended by a check: it leaves its loop
\* only through the case <-ctx.Done().
C38_DaemonSurvivesErrors ==
    dm.mode = "daemon" => dm.pc \notin {"fatal", "crashed"}

\* C36: in daemon mode CheckForUpdates runs only inside handleCheckNow, and the
\* loop takes a tick, and so calls the next CheckForUpdates, only when the one
\* before has returned; a tick that falls due during a check waits.
C36_ChecksNeverOverlap ==
    /\ [](dm.mode = "daemon" => (ck.pc # "idle" => dm.pc = "check"))
    /\ [][(dm.mode = "daemon" /\ dm.tick /\ ~dm'.tick /\ dm'.pc = "check")
             => (ck.pc = "idle" /\ dm.pc = "select")]_vars

\* C36 witness: a tick fell due while a periodic check is between its
\* SaveVersionUpdate and its SaveApp; it waits in ticker.C.
C36_Witness ==
    /\ dm.mode = "daemon" /\ dm.ticker /\ dm.tick
    /\ dm.pc = "check" /\ ck.pc = "saveNew"

\* The daemon with what its scheduling guarantees: the steps of a check and of
\* handleCheckNow are taken (every call returns), the signal goroutine runs, and
\* the select, which chooses among its ready cases at random, does not pass
\* over a case that is ready again and again.
SpecMainFair ==
    /\ SpecMain
    /\ WF_vars(MainCheckStart) /\ WF_vars(CheckLookup) /\ WF_vars(CheckAppend)
    /\ WF_vars(CheckSaveNew) /\ WF_vars(CheckSaveSame) /\ WF_vars(CheckFinish)
    /\ WF_vars(MainChecked) /\ WF_vars(MainPanic) /\ WF_vars(DaemonCancel)
    /\ SF_vars(DaemonSelectDone)

\* C37 as claimed: once a shutdown signal is in sigChan, the daemon loop
\* reaches "Daemon stopped".
C37_ShutdownReachesStopped ==
    dm.sig ~> (dm.pc = "exited")

\* C34 as claimed: after a TrackApp(id) that returned success LoadApp(id)
\* returns a record whose bundle ID is id, and every apps file holds the record
\* of the identifier it is named after.
C34_SavedUnderRequestedKey ==
    /\ (tr.pc = "done" /\ tr.ret = "ok")
          => /\ LoadApp(appsFile, tr.id) # None
             /\ LoadApp(appsFile, tr.id)[1].bundleID = tr.id
    /\ \A id \in Ids : LoadApp(appsFile, id) # None => appsFile[id][1].bundleID = id

\* ------------------------------------------------- removal during a check
\* CheckForUpdates running while handleTrack serves DELETE requests: the check
\* works on the records that GetAllApps returned when it started.
NextCheckRemove ==
    \/ CheckStart
    \/ CheckLookup
    \/ CheckAppend
    \/ CheckSaveNew
    \/ CheckSaveSame
    \/ CheckFinish
    \/ CheckReturn
    \/ \E id \in Ids : RemoveCall(id)
    \/ RemoveReturn

SpecCheckRemove == InitRemove /\ [][NextCheckRemove]_vars

\* C33: when a removal of an identifier has completed and the check that
\* listed the identifier has finished, the identifier has neither a
\* current-state record nor a history; the check does not write them back
\* from the records it listed before the removal.
C33_RemovedStaysRemoved ==
    (/\ rm.pc = "idle" /\ rm.ret = "ok" /\ rm.had
     /\ ck.pc = "done" /\ run.listOk
     /\ \E k \in 1..Len(run.listed) : run.listed[k] = rm.id)
        => /\ appsFile[rm.id] = None
           /\ updatesFile[rm.id] = None

\* ------------------------------------------------------------ handleTrack
\* The two builds of the server: handleTrack of server.go accepts POST,
\* handleTrack of the removal-capable server accepts POST and DELETE.
Servers == {"post", "postDelete"}
Methods == {"GET", "PUT", "POST", "DELETE"}
\* Request bodies: no JSON at all, a bundle_id of the wrong type, an object
\* without bundle_id, an empty bundle_id, and a bundle_id per identifier.
Bodies == {"garbage", "{bundle_id:5}", "{}", "{bundle_id:}"} \cup Ids

\* json.NewDecoder(r.Body).Decode(&req): an error, or the BundleID field, which
\* stays "" when the object has no bundle_id.
DecodeBody(body) ==
    CASE body \in {"garbage", "{bundle_id:5}"} -> [err |-> TRUE, bundleID |-> ""]
      [] body \in {"{}", "{bundle_id:}"} -> [err |-> FALSE, bundleID |-> ""]
      [] OTHER -> [err |-> FALSE, bundleID |-> body]

MethodAllowed(server, method) ==
    method = "POST" \/ (server = "postDelete" /\ method = "DELETE")

\* A handler that decodes the body before it looks at the method.
TrackGate_DecodeFirst(server, method, body) ==
    IF DecodeBody(body).err \/ DecodeBody(body).bundleID = "" THEN "StatusBadRequest"
    ELSE IF ~MethodAllowed(server, method) THEN "StatusMethodNotAllowed"
    ELSE "pass"

\* handleTrack up to the call of the tracker: the method, the decoding, the
\* empty bundle_id; "pass" when the request goes on to the tracker.
TrackGate(server, method, body) ==
    IF ~MethodAllowed(server, method) THEN "StatusMethodNotAllowed"
    ELSE IF DecodeBody(body).err THEN "StatusBadRequest"
    ELSE IF DecodeBody(body).bundleID = "" THEN "StatusBadRequest"
    ELSE "pass"

\* A request arrives at /api/track; snap keeps the files as they were then.
\* A request that does not pass is answered at once.
HttpReceive ==
    /\ fn.pc = "idle" /\ tr.pc = "idle" /\ rm.pc = "idle"
    /\ \E server \in Servers, method \in Methods, body \in Bodies :
          LET gate == TrackGate(server, method, body)
          IN  fn' = [FnNone EXCEPT !.op = "handleTrack",
                                   !.pc = IF gate = "pass" THEN "call" ELSE "done",
                                   !.arg = <<server, method, body>>,
                                   !.out = IF gate = "pass" THEN <<>> ELSE <<gate>>]
    /\ snap' = [SnapNone EXCEPT !.apps = Some(appsFile), !.upds = Some(updatesFile)]
    /\ UNCHANGED <<now, enabled, appsFile, updatesFile, ck, tr, firstTracked, chk, run,
                   lockVars, cks, rm, res, dm>>

\* handleTrack, POST: s.tracker.TrackApp(req.BundleID).
HttpTrack ==
    /\ fn.op = "handleTrack" /\ fn.pc = "call" /\ fn.arg[2] = "POST"
    /\ TrackLookup(DecodeBody(fn.arg[3]).bundleID)

\* handleTrack, DELETE: s.tracker.RemoveApp(req.BundleID).
HttpRemove ==
    /\ fn.op = "handleTrack" /\ fn.pc = "call" /\ fn.arg[2] = "DELETE"
    /\ RemoveCall(DecodeBody(fn.arg[3]).bundleID)

\* handleTrack after the tracker returned: 500 on an error, else 201 for POST
\* and the default 200 for DELETE.  When TrackApp panicked the handler writes
\* nothing: net/http recovers the panic and closes the connection.
HttpAnswer ==
    /\ fn.op = "handleTrack" /\ fn.pc = "call"
    /\ \/ /\ tr.pc = "done"
          /\ fn' = [fn EXCEPT !.pc = "done",
                              !.out = <<IF tr.ret = "ok" THEN "StatusCreated"
                                        ELSE "StatusInternalServerError">>]
       \/ /\ tr.pc = "panic"
          /\ fn' = [fn EXCEPT !.pc = "done", !.out = <<"connection closed">>]
       \/ /\ rm.pc = "done"
          /\ fn' = [fn EXCEPT !.pc = "done",
                              !.out = <<IF rm.ret = "ok" THEN "StatusOK"
                                        ELSE "StatusInternalServerError">>]
    /\ UNCHANGED <<now, enabled, appsFile, updatesFile, ck, tr, firstTracked, chk, run,
                   lockVars, cks, rm, res, snap, dm>>

\* The response is written and the handler returns.
HttpDone ==
    /\ fn.op = "handleTrack" /\ fn.pc = "done"
    /\ fn' = FnNone
    /\ tr' = TrIdle
    /\ rm' = [rm EXCEPT !.pc = "idle"]
    /\ UNCHANGED <<now, enabled, appsFile, updatesFile, ck, firstTracked, chk, run,
                   lockVars, cks, res, snap, dm>>

NextHttp ==
    \/ HttpReceive
    \/ HttpTrack
    \/ TrackLoad
    \/ TrackSave
    \/ HttpRemove
    \/ HttpAnswer
    \/ HttpDone

\* Requests to /api/track, served one after the other.
SpecHttp == InitRemove /\ [][NextHttp]_vars

\* The tracker was not called and the files are as the request found them.
HttpUntouched ==
    /\ tr.pc = "idle" /\ rm.pc = "idle"
    /\ snap.apps = Some(appsFile) /\ snap.upds = Some(updatesFile)

\* C39: a request to /api/track with a method the server does not accept is
\* answered 405, one with an undecodable body or an empty bundle_id 400, in
\* both cases without a call of the tracker and with every file unchanged (the
\* files change only for a request that passed both tests); and a POST is
\* answered 201 only when TrackApp of the requested identifier returned nil.
C39_OnlyAcceptedRequestsChange ==
    (fn.op = "handleTrack" /\ fn.pc = "done") =>
        LET server == fn.arg[1]
            method == fn.arg[2]
            body == fn.arg[3]
            code == fn.out[1]
        IN  /\ ~MethodAllowed(server, method)
                  => (code = "StatusMethodNotAllowed" /\ HttpUntouched)
            /\ (MethodAllowed(server, method)
                  /\ (DecodeBody(body).err \/ DecodeBody(body).bundleID = ""))
                  => (code = "StatusBadRequest" /\ HttpUntouched)
            /\ (snap.apps # Some(appsFile) \/ snap.upds # Some(updatesFile))
                  => /\ MethodAllowed(server, method)
                     /\ ~DecodeBody(body).err /\ DecodeBody(body).bundleID # ""
            /\ code = "StatusCreated"
                  => (method = "POST" /\ tr.pc = "done" /\ tr.ret = "ok" /\ tr.id = body)

\* A DELETE of a tracked identifier has been answered 405 by the server that
\* accepts POST only.
C39_Witness ==
    /\ fn.op = "handleTrack" /\ fn.pc = "done"
    /\ fn.arg[1] = "post" /\ fn.arg[2] = "DELETE"
    /\ fn.arg[3] \in Ids /\ appsFile[fn.arg[3]] # None
    /\ fn.out = <<"StatusMethodNotAllowed">>

\* ------------------------------------------------------ repeated checks
\* CheckForUpdates called again and again (the daemon's initial check and its
\* ticks) while the catalog stays at CatalogVersion.  Lookups, listings and
\* writes may fail in the early checks; the last check the clock has room for
\* meets no failure.
Tracked == {id \in Ids : LoadApp(appsFile, id) # None}

\* The check that started at time start is the last one the clock has room for.
LastCheck(start) == start + 2 * Cardinality(Tracked) > MaxTime

\* The time at which the running check started: every item attempted so far
\* took one lookup.
CheckBegan == IF ck.pc = "lookup" THEN now - (ck.i - 1) ELSE now - ck.i

\* The listing returned every stored record.
ListedAll == run'.listOk /\ Len(run'.listed) = Cardinality(Tracked)

LiveStart ==
    /\ now + Cardinality(Tracked) <= MaxTime
    /\ CheckStart
    /\ LastCheck(now) => ListedAll

LiveStartAll == LiveStart /\ ListedAll

LiveLookup ==
    /\ CheckLookup
    /\ ck'.pc # "panic"
    /\ chk'.fetched # None => chk'.fetched[1].version = CatalogVersion
    /\ LastCheck(CheckBegan) => chk'.result # "lookupErr"

LiveAppend ==
    /\ CheckAppend
    /\ LastCheck(CheckBegan) => chk'.result # "appendErr"

LiveSaveNew ==
    /\ CheckSaveNew
    /\ LastCheck(CheckBegan) => chk'.result # "saveErr"

LiveSaveSame ==
    /\ CheckSaveSame
    /\ LastCheck(CheckBegan) => chk'.result # "saveErr"

NextLive ==
    \/ LiveStart
    \/ LiveLookup
    \/ LiveAppend
    \/ LiveSaveNew
    \/ LiveSaveSame
    \/ CheckFinish
    \/ CheckReturn

\* Every step of a check is taken when the call before it has returned, the
\* caller calls again when a check has returned, and listings that return
\* every record keep occurring.
SpecLive ==
    /\ InitTerm /\ [][NextLive]_vars
    /\ WF_vars(LiveLookup) /\ WF_vars(LiveAppend) /\ WF_vars(LiveSaveNew)
    /\ WF_vars(LiveSaveSame) /\ WF_vars(CheckFinish) /\ WF_vars(CheckReturn)
    /\ SF_vars(LiveStartAll)

\* The store holds the catalog's version of id and an update record of it.
Detected(id) ==
    /\ LoadApp(appsFile, id) # None
    /\ appsFile[id][1].version = CatalogVersion
    /\ \E k \in 1..Len(GetVersionUpdates(updatesFile, id)) :
          GetVersionUpdates(updatesFile, id)[k].newVersion = CatalogVersion

====
